---- MODULE Spec2Model ----
(***************************************************************************)
(* Border-content synthesis of pdf_border_tool: ImageProcessor             *)
(* (src/core/image_processor.py).                                           *)
(*                                                                          *)
(* Lengths in millimetres are carried in tenths of a millimetre (mm10), so  *)
(* mm / 25.4 * dpi is the exact rational mm10 * dpi / 254.  For the dpi     *)
(* values used below no product mm10 * dpi is a multiple of 254 other than  *)
(* 0, so the double-precision quotient of the code truncates to the same    *)
(* integer as the exact one.                                                *)
(***************************************************************************)
EXTENDS Integers, Sequences, FiniteSets, TLC

(***************************************************************************)
(* Bounds of the model                                                      *)
(***************************************************************************)
MaxDim == 8          \* largest image height / width
MaxMm10 == 40        \* largest length tried by the unit-conversion calls
MaxFill == 1         \* inpainting outcomes tried: fills 0 .. MaxFill

Min2(a, b) == IF a <= b THEN a ELSE b
Max2(a, b) == IF a >= b THEN a ELSE b

(***************************************************************************)
(* int(x) of Python for the rational x = n / d, d > 0: truncation toward 0 *)
(***************************************************************************)
PyInt(n, d) == IF n >= 0 THEN n \div d ELSE -((-n) \div d)

(***************************************************************************)
(* round(x) of Python for the rational x = n / d, d > 0: nearest integer,  *)
(* ties to the even neighbour                                               *)
(***************************************************************************)
PyRound(n, d) ==
    LET q == n \div d
        r == n % d
    IN  IF 2 * r < d THEN q
        ELSE IF 2 * r > d THEN q + 1
        ELSE IF q % 2 = 0 THEN q ELSE q + 1

(***************************************************************************)
(* ImageProcessor._mm_to_pixels                                             *)
(***************************************************************************)
MmToPixelsUnclamped(mm10, dpi) == PyInt(mm10 * dpi, 254)

_mm_to_pixels(mm10, dpi) == Max2(1, PyInt(mm10 * dpi, 254))

(***************************************************************************)
(* dict.get(key, default); the mapping after the lookup is the mapping     *)
(* before it                                                                *)
(***************************************************************************)
SettingsGet(s, key, default) == IF key \in DOMAIN s THEN s[key] ELSE default

SettingsAfterSetdefault(s, key, default) ==
    IF key \in DOMAIN s THEN s ELSE [k \in DOMAIN s \cup {key} |-> IF k = key THEN default ELSE s[k]]

SettingsAfterGet(s, key, default) == s

(***************************************************************************)
(* Rasters.  An array is [h, w, ch, px]: ch = 0 is a 2-D array, otherwise   *)
(* the length of the channel axis; px maps <<row, col>> to the tuple of     *)
(* samples.  An image is [id, mode, h, w, px]; id is the object identity.   *)
(***************************************************************************)
Dom(h, w) == (0 .. h - 1) \X (0 .. w - 1)

Channels(mode) ==
    CASE mode = "L" -> 1 [] mode = "LA" -> 2 [] mode = "RGB" -> 3 [] mode = "RGBA" -> 4

\* np.array(image): a new array holding a copy of the samples
NpArray(img) ==
    [h |-> img.h, w |-> img.w,
     ch |-> IF img.mode = "L" THEN 0 ELSE Channels(img.mode),
     px |-> img.px]

\* Image.fromarray(array) for uint8 data: the mode follows the shape
FromArray(arr, newId) ==
    [id |-> newId,
     mode |-> CASE arr.ch = 0 -> "L" [] arr.ch = 2 -> "LA" [] arr.ch = 3 -> "RGB" [] arr.ch = 4 -> "RGBA",
     h |-> arr.h, w |-> arr.w, px |-> arr.px]

ZeroPixel(ch) == [k \in 1 .. Max2(ch, 1) |-> 0]

\* array.shape with the channel count of a 2-D array reported as 1
ShapeOf(img) == <<img.h, img.w, Channels(img.mode)>>

\* numpy integer indexing along an axis of length n
InBounds(k, n) == k >= -n /\ k < n
Wrap(k, n) == IF k < 0 THEN k + n ELSE k

\* array[r0:r1, c0:c1] with Python slice clamping already applied
SliceWithoutLastRow(arr, r0, r1, c0, c1) ==
    [h |-> Max2(r1 - r0 - 1, 0), w |-> Max2(c1 - c0, 0), ch |-> arr.ch,
     px |-> [p \in Dom(Max2(r1 - r0 - 1, 0), Max2(c1 - c0, 0)) |-> arr.px[<<r0 + p[1], c0 + p[2]>>]]]

Slice(arr, r0, r1, c0, c1) ==
    [h |-> Max2(r1 - r0, 0), w |-> Max2(c1 - c0, 0), ch |-> arr.ch,
     px |-> [p \in Dom(Max2(r1 - r0, 0), Max2(c1 - c0, 0)) |-> arr.px[<<r0 + p[1], c0 + p[2]>>]]]

(***************************************************************************)
(* Outcome of a method: a returned image or a raised exception, with the   *)
(* methods entered on the way                                               *)
(***************************************************************************)
NoImage == [id |-> 0, mode |-> "none", h |-> 0, w |-> 0, px |-> <<>>]

Returned(img, calls) == [status |-> "returned", error |-> "", img |-> img, calls |-> calls]

Raised(error, calls) == [status |-> "raised", error |-> error, img |-> NoImage, calls |-> calls]

(***************************************************************************)
(* Source-strip depth of edge-stretch and of the gradient-fade corners      *)
(***************************************************************************)
StretchSourceNoMinimum(settings, orig_width, orig_height, border_pixels) ==
    LET source_width_mm == SettingsGet(settings, "stretch_source_width_mm", 10)
        dpi == SettingsGet(settings, "output_dpi", 300)
        source_width_pixels == MmToPixelsUnclamped(source_width_mm, dpi)
        max_source_pixels == Min2(Min2(orig_width \div 4, orig_height \div 4), border_pixels)
    IN  Min2(source_width_pixels, max_source_pixels)

StretchSourcePixels(settings, orig_width, orig_height, border_pixels) ==
    LET source_width_mm == SettingsGet(settings, "stretch_source_width_mm", 10)
        dpi == SettingsGet(settings, "output_dpi", 300)
        source_width_pixels == _mm_to_pixels(source_width_mm, dpi)
        max_source_pixels == Min2(Min2(orig_width \div 4, orig_height \div 4), border_pixels)
    IN  Max2(1, Min2(source_width_pixels, max_source_pixels))

\* min(i * stretch_source_pixels // border_pixels, stretch_source_pixels - 1)
EdgeIndexUnstretched(i, S, B) == Min2(i, S - 1)

EdgeIndex(i, S, B) == Min2((i * S) \div B, S - 1)

(***************************************************************************)
(* ImageProcessor._stretch_corner_region: nearest-neighbour stretch of a   *)
(* corner region to target_size x target_size                               *)
(***************************************************************************)
StretchReadsOk(corner_region, target_size) ==
    target_size = 0 \/ (corner_region.h > 0 /\ corner_region.w > 0)

StretchCornerTransposed(corner_region, target_size) ==
    LET source_height == corner_region.h
        source_width == corner_region.w
    IN  [h |-> target_size, w |-> target_size, ch |-> corner_region.ch,
         px |-> [t \in Dom(target_size, target_size) |->
                   corner_region.px[<<Min2((t[2] * source_height) \div target_size, source_height - 1),
                                      Min2((t[1] * source_width) \div target_size, source_width - 1)>>]]]

_stretch_corner_region(corner_region, target_size) ==
    LET source_height == corner_region.h
        source_width == corner_region.w
    IN  [h |-> target_size, w |-> target_size, ch |-> corner_region.ch,
         px |-> [t \in Dom(target_size, target_size) |->
                   corner_region.px[<<Min2((t[1] * source_height) \div target_size, source_height - 1),
                                      Min2((t[2] * source_width) \div target_size, source_width - 1)>>]]]

\* the four corner regions array[:S, :S], array[:S, -S:], array[-S:, :S], array[-S:, -S:]
CornerRegionOneWider(arr, S, which) ==
    LET r0 == IF which \in {"tl", "tr"} THEN 0 ELSE Max2(arr.h - (S + 1), 0)
        r1 == IF which \in {"tl", "tr"} THEN Min2(S + 1, arr.h) ELSE arr.h
        c0 == IF which \in {"tl", "bl"} THEN 0 ELSE Max2(arr.w - (S + 1), 0)
        c1 == IF which \in {"tl", "bl"} THEN Min2(S + 1, arr.w) ELSE arr.w
    IN  Slice(arr, r0, r1, c0, c1)

CornerRegion(arr, S, which) ==
    LET r0 == IF which \in {"tl", "tr"} THEN 0 ELSE Max2(arr.h - S, 0)
        r1 == IF which \in {"tl", "tr"} THEN Min2(S, arr.h) ELSE arr.h
        c0 == IF which \in {"tl", "bl"} THEN 0 ELSE Max2(arr.w - S, 0)
        c1 == IF which \in {"tl", "bl"} THEN Min2(S, arr.w) ELSE arr.w
    IN  Slice(arr, r0, r1, c0, c1)

(***************************************************************************)
(* Regions of the (H + 2B) x (W + 2B) canvas written by the strategies      *)
(***************************************************************************)
InCenter(p, H, W, B) == p[1] >= B /\ p[1] < B + H /\ p[2] >= B /\ p[2] < B + W
InTopBand(p, H, W, B) == p[1] < B /\ p[2] >= B /\ p[2] < B + W
InBottomBand(p, H, W, B) == p[1] >= B + H /\ p[2] >= B /\ p[2] < B + W
InLeftBand(p, H, W, B) == p[2] < B /\ p[1] >= B /\ p[1] < B + H
InRightBand(p, H, W, B) == p[2] >= B + W /\ p[1] >= B /\ p[1] < B + H
InCornerTL(p, H, W, B) == p[1] < B /\ p[2] < B
InCornerTR(p, H, W, B) == p[1] < B /\ p[2] >= B + W
InCornerBL(p, H, W, B) == p[1] >= B + H /\ p[2] < B
InCornerBR(p, H, W, B) == p[1] >= B + H /\ p[2] >= B + W

\* the assignments to content_array whose target slice holds pixel p
WritesToBandsOverCorners(p, H, W, B) ==
    (IF InCenter(p, H, W, B) THEN {"center"} ELSE {})
    \cup (IF p[1] < B THEN {"top"} ELSE {})
    \cup (IF p[1] >= B + H THEN {"bottom"} ELSE {})
    \cup (IF InLeftBand(p, H, W, B) THEN {"left"} ELSE {})
    \cup (IF InRightBand(p, H, W, B) THEN {"right"} ELSE {})
    \cup (IF InCornerTL(p, H, W, B) THEN {"tl"} ELSE {})
    \cup (IF InCornerTR(p, H, W, B) THEN {"tr"} ELSE {})
    \cup (IF InCornerBL(p, H, W, B) THEN {"bl"} ELSE {})
    \cup (IF InCornerBR(p, H, W, B) THEN {"br"} ELSE {})

WritesTo(p, H, W, B) ==
    (IF InCenter(p, H, W, B) THEN {"center"} ELSE {})
    \cup (IF InTopBand(p, H, W, B) THEN {"top"} ELSE {})
    \cup (IF InBottomBand(p, H, W, B) THEN {"bottom"} ELSE {})
    \cup (IF InLeftBand(p, H, W, B) THEN {"left"} ELSE {})
    \cup (IF InRightBand(p, H, W, B) THEN {"right"} ELSE {})
    \cup (IF InCornerTL(p, H, W, B) THEN {"tl"} ELSE {})
    \cup (IF InCornerTR(p, H, W, B) THEN {"tr"} ELSE {})
    \cup (IF InCornerBL(p, H, W, B) THEN {"bl"} ELSE {})
    \cup (IF InCornerBR(p, H, W, B) THEN {"br"} ELSE {})

\* the four corner writes, the last write to a pixel winning
CornerFill(p, oa, S, B, below) ==
    LET H == oa.h
        W == oa.w
    IN  IF InCornerBR(p, H, W, B)
        THEN _stretch_corner_region(CornerRegion(oa, S, "br"), B).px[<<p[1] - (B + H), p[2] - (B + W)>>]
        ELSE IF InCornerBL(p, H, W, B)
        THEN _stretch_corner_region(CornerRegion(oa, S, "bl"), B).px[<<p[1] - (B + H), p[2]>>]
        ELSE IF InCornerTR(p, H, W, B)
        THEN _stretch_corner_region(CornerRegion(oa, S, "tr"), B).px[<<p[1], p[2] - (B + W)>>]
        ELSE IF InCornerTL(p, H, W, B)
        THEN _stretch_corner_region(CornerRegion(oa, S, "tl"), B).px[p]
        ELSE below

(***************************************************************************)
(* ImageProcessor._generate_edge_stretched_content                          *)
(***************************************************************************)
EdgeStretchReadsOk(oa, S, B) ==
    /\ \A i \in 0 .. B - 1 :
          /\ InBounds(EdgeIndex(i, S, B), oa.h)
          /\ InBounds(oa.h - 1 - EdgeIndex(i, S, B), oa.h)
          /\ InBounds(EdgeIndex(i, S, B), oa.w)
          /\ InBounds(oa.w - 1 - EdgeIndex(i, S, B), oa.w)
    /\ \A which \in {"tl", "tr", "bl", "br"} : StretchReadsOk(CornerRegion(oa, S, which), B)

EdgeStretchPixel(p, oa, S, B) ==
    LET H == oa.h
        W == oa.w
        bands ==
            IF InRightBand(p, H, W, B)
            THEN oa.px[<<p[1] - B, Wrap(W - 1 - EdgeIndex(p[2] - (B + W), S, B), W)>>]
            ELSE IF InLeftBand(p, H, W, B)
            THEN oa.px[<<p[1] - B, Wrap(EdgeIndex(B - 1 - p[2], S, B), W)>>]
            ELSE IF InBottomBand(p, H, W, B)
            THEN oa.px[<<Wrap(H - 1 - EdgeIndex(p[1] - (B + H), S, B), H), p[2] - B>>]
            ELSE IF InTopBand(p, H, W, B)
            THEN oa.px[<<Wrap(EdgeIndex(B - 1 - p[1], S, B), H), p[2] - B>>]
            ELSE IF InCenter(p, H, W, B)
            THEN oa.px[<<p[1] - B, p[2] - B>>]
            ELSE ZeroPixel(oa.ch)
    IN  CornerFill(p, oa, S, B, bands)

_generate_edge_stretched_content(original_image, border_pixels, settings, newId) ==
    LET original_array == NpArray(original_image)
        orig_height == original_array.h
        orig_width == original_array.w
        final_width == orig_width + 2 * border_pixels
        final_height == orig_height + 2 * border_pixels
        S == StretchSourcePixels(settings, orig_width, orig_height, border_pixels)
        content_array ==
            [h |-> final_height, w |-> final_width, ch |-> original_array.ch,
             px |-> [p \in Dom(final_height, final_width) |->
                       EdgeStretchPixel(p, original_array, S, border_pixels)]]
    IN  IF EdgeStretchReadsOk(original_array, S, border_pixels)
        THEN Returned(FromArray(content_array, newId), <<"_generate_edge_stretched_content">>)
        ELSE Raised("IndexError", <<"_generate_edge_stretched_content">>)

(***************************************************************************)
(* ImageProcessor._generate_solid_color_content                             *)
(***************************************************************************)
\* ImageColor.getrgb: the colour strings of the model that PIL can parse
ColorTable == [c \in {"#FFFFFF", "#FF0000"} |-> IF c = "#FFFFFF" THEN <<255, 255, 255>> ELSE <<255, 0, 0>>]

ColorValid(c) == c \in DOMAIN ColorTable

\* the fill pixel of Image.new(mode, size, color): opaque alpha in mode RGBA
ColorPixel(c, mode) == IF mode = "RGBA" THEN ColorTable[c] \o <<255>> ELSE ColorTable[c]

\* the conversion paste applies to a source pixel whose mode differs from the target's
ConvertPixel(px, from, to) ==
    IF from = to THEN px
    ELSE IF from = "L" /\ to = "RGB" THEN <<px[1], px[1], px[1]>>
    ELSE IF from = "LA" /\ to = "RGBA" THEN <<px[1], px[1], px[1], px[2]>>
    ELSE IF from = "L" /\ to = "RGBA" THEN <<px[1], px[1], px[1], 255>>
    ELSE IF from = "RGB" /\ to = "RGBA" THEN px \o <<255>>
    ELSE <<px[1], px[2], px[3]>>

\* target.paste(source, (x, y)): writes the source, converted to the target's mode, into the target only
Paste(target, source, x, y) ==
    [target EXCEPT !.px =
        [p \in Dom(target.h, target.w) |->
            IF p[1] >= y /\ p[1] < y + source.h /\ p[2] >= x /\ p[2] < x + source.w
            THEN ConvertPixel(source.px[<<p[1] - y, p[2] - x>>], source.mode, target.mode)
            ELSE target.px[p]]]

_generate_solid_color_content(original_image, border_pixels, settings, newId) ==
    LET orig_width == original_image.w
        orig_height == original_image.h
        final_width == orig_width + 2 * border_pixels
        final_height == orig_height + 2 * border_pixels
        solid_color == SettingsGet(settings, "solid_color", "#FFFFFF")
        mode == IF original_image.mode \in {"RGBA", "LA"} THEN "RGBA" ELSE "RGB"
        result_image ==
            [id |-> newId, mode |-> mode, h |-> final_height, w |-> final_width,
             px |-> [p \in Dom(final_height, final_width) |-> ColorPixel(solid_color, mode)]]
    IN  IF ColorValid(solid_color)
        THEN Returned(Paste(result_image, original_image, border_pixels, border_pixels),
                      <<"_generate_solid_color_content">>)
        ELSE Raised("ValueError", <<"_generate_solid_color_content">>)

(***************************************************************************)
(* ImageProcessor._opencv_smart_fill and _generate_smart_fill_content.      *)
(* The inpainting backend is the environment: it either raises or returns   *)
(* the canvas with the masked pixels replaced by a fill and the others      *)
(* untouched.                                                               *)
(***************************************************************************)
InpaintFills == {(85 * k) % 256 : k \in 0 .. MaxFill}

\* cv2.cvtColor(a, COLOR_RGB2BGR / COLOR_BGR2RGB): 3 or 4 channels in, 3 out, first and third swapped
CvtColorOk(arr) == arr.ch \in {3, 4} /\ arr.h > 0 /\ arr.w > 0

CvtColorSwap(arr) ==
    [h |-> arr.h, w |-> arr.w, ch |-> 3,
     px |-> [p \in Dom(arr.h, arr.w) |-> <<arr.px[p][3], arr.px[p][2], arr.px[p][1]>>]]

\* the mask of _opencv_smart_fill: 255 on the four margins, 0 elsewhere
SmartFillMaskNoRightMargin(final_height, final_width, border_pixels) ==
    [p \in Dom(final_height, final_width) |->
        IF \/ p[1] < border_pixels
           \/ p[1] >= Max2(final_height - border_pixels, 0)
           \/ p[2] < border_pixels
        THEN 255 ELSE 0]

SmartFillMask(final_height, final_width, border_pixels) ==
    [p \in Dom(final_height, final_width) |->
        IF \/ p[1] < border_pixels
           \/ p[1] >= Max2(final_height - border_pixels, 0)
           \/ p[2] < border_pixels
           \/ p[2] >= Max2(final_width - border_pixels, 0)
        THEN 255 ELSE 0]

InpaintRadius(border_pixels) == Min2(border_pixels \div 2, 15)

\* cv2.inpaint(src, mask, ...): masked pixels synthesised, the others copied
Inpaint(arr, mask, fill) ==
    [arr EXCEPT !.px = [p \in Dom(arr.h, arr.w) |->
                           IF mask[p] = 255 THEN [k \in 1 .. Max2(arr.ch, 1) |-> fill] ELSE arr.px[p]]]

\* the arguments _opencv_smart_fill passes to cv2.inpaint, when it gets that far
NoRequest == [called |-> FALSE, src |-> [h |-> 0, w |-> 0, ch |-> 0, px |-> <<>>], mask |-> <<>>, radius |-> 0]

InpaintRequest(original_image, border_pixels) ==
    LET orig_array == NpArray(original_image)
        orig_height == orig_array.h
        orig_width == orig_array.w
        final_width == orig_width + 2 * border_pixels
        final_height == orig_height + 2 * border_pixels
        color == orig_array.ch # 0
        img_cv == IF color THEN CvtColorSwap(orig_array) ELSE orig_array
        extended_img ==
            [h |-> final_height, w |-> final_width, ch |-> IF color THEN 3 ELSE 0,
             px |-> [p \in Dom(final_height, final_width) |->
                       IF InCenter(p, orig_height, orig_width, border_pixels)
                       THEN img_cv.px[<<p[1] - border_pixels, p[2] - border_pixels>>]
                       ELSE ZeroPixel(IF color THEN 3 ELSE 0)]]
    IN  IF color /\ ~CvtColorOk(orig_array)
        THEN NoRequest
        ELSE [called |-> TRUE, src |-> extended_img,
              mask |-> SmartFillMask(final_height, final_width, border_pixels),
              radius |-> InpaintRadius(border_pixels)]

_opencv_smart_fill(original_image, border_pixels, backendFails, fill, newId) ==
    LET orig_array == NpArray(original_image)
        color == orig_array.ch # 0
        request == InpaintRequest(original_image, border_pixels)
        result == Inpaint(request.src, request.mask, fill)
        result_rgb == IF color THEN CvtColorSwap(result) ELSE result
    IN  IF color /\ ~CvtColorOk(orig_array)
        THEN Raised("cv2.error", <<"_opencv_smart_fill">>)
        ELSE IF backendFails
        THEN Raised("cv2.error", <<"_opencv_smart_fill">>)
        ELSE Returned(FromArray(result_rgb, newId), <<"_opencv_smart_fill">>)

SmartFillNoFallback(original_image, border_pixels, settings, backendFails, fill, newId) ==
    LET first == _opencv_smart_fill(original_image, border_pixels, backendFails, fill, newId)
    IN  [first EXCEPT !.calls = <<"_generate_smart_fill_content">> \o first.calls]

_generate_smart_fill_content(original_image, border_pixels, settings, backendFails, fill, newId) ==
    LET first == _opencv_smart_fill(original_image, border_pixels, backendFails, fill, newId)
        fallback == _generate_edge_stretched_content(original_image, border_pixels, settings, newId)
    IN  IF first.status = "returned"
        THEN [first EXCEPT !.calls = <<"_generate_smart_fill_content">> \o first.calls]
        ELSE [fallback EXCEPT !.calls = <<"_generate_smart_fill_content">> \o first.calls \o fallback.calls]

(***************************************************************************)
(* ImageProcessor._generate_clean_gradient_content                          *)
(***************************************************************************)
\* (sample * max(0.9, 1.0 - (i / border_pixels) * 0.1)).astype(uint8)
GradientSampleHalved(v, i, B) == PyInt(v * (2 * B - i), 2 * B)

GradientSample(v, i, B) == Max2(PyInt(9 * v, 10), PyInt(v * (10 * B - i), 10 * B))

GradientLine(px, i, B) == [k \in DOMAIN px |-> GradientSample(px[k], i, B)]

\* the corner source depth of gradient-fade, computed by its own copy of the clamp
GradientCornerOnePixel(settings, orig_width, orig_height, border_pixels) == 1

GradientCornerSourcePixels(settings, orig_width, orig_height, border_pixels) ==
    LET source_width_mm == SettingsGet(settings, "stretch_source_width_mm", 10)
        dpi == SettingsGet(settings, "output_dpi", 300)
        source_width_pixels == _mm_to_pixels(source_width_mm, dpi)
        max_source_pixels == Min2(Min2(orig_width \div 4, orig_height \div 4), border_pixels)
        corner_source_pixels == Min2(source_width_pixels, max_source_pixels)
    IN  Max2(1, corner_source_pixels)

GradientReadsOk(oa, S, B) ==
    /\ B > 0 => (InBounds(0, oa.h) /\ InBounds(-1, oa.h) /\ InBounds(0, oa.w) /\ InBounds(-1, oa.w))
    /\ \A which \in {"tl", "tr", "bl", "br"} : StretchReadsOk(CornerRegion(oa, S, which), B)

\* the four corner writes of gradient-fade, its own copy of those of edge-stretch
GradientCornerFaded(p, oa, S, B, below) ==
    IF \/ InCornerTL(p, oa.h, oa.w, B) \/ InCornerTR(p, oa.h, oa.w, B)
       \/ InCornerBL(p, oa.h, oa.w, B) \/ InCornerBR(p, oa.h, oa.w, B)
    THEN GradientLine(CornerFill(p, oa, S, B, below), B - 1, B)
    ELSE below

GradientCornerFill(p, oa, S, B, below) == CornerFill(p, oa, S, B, below)

GradientPixel(p, oa, S, B) ==
    LET H == oa.h
        W == oa.w
        bands ==
            IF InRightBand(p, H, W, B)
            THEN GradientLine(oa.px[<<p[1] - B, Wrap(-1, W)>>], p[2] - (B + W), B)
            ELSE IF InLeftBand(p, H, W, B)
            THEN GradientLine(oa.px[<<p[1] - B, 0>>], B - 1 - p[2], B)
            ELSE IF InBottomBand(p, H, W, B)
            THEN GradientLine(oa.px[<<Wrap(-1, H), p[2] - B>>], p[1] - (B + H), B)
            ELSE IF InTopBand(p, H, W, B)
            THEN GradientLine(oa.px[<<0, p[2] - B>>], B - 1 - p[1], B)
            ELSE IF InCenter(p, H, W, B)
            THEN oa.px[<<p[1] - B, p[2] - B>>]
            ELSE ZeroPixel(oa.ch)
    IN  GradientCornerFill(p, oa, S, B, bands)

_generate_clean_gradient_content(original_image, border_pixels, settings, newId) ==
    LET orig_array == NpArray(original_image)
        orig_height == orig_array.h
        orig_width == orig_array.w
        final_width == orig_width + 2 * border_pixels
        final_height == orig_height + 2 * border_pixels
        corner_source_pixels ==
            GradientCornerSourcePixels(settings, orig_width, orig_height, border_pixels)
        content_array ==
            [h |-> final_height, w |-> final_width, ch |-> orig_array.ch,
             px |-> [p \in Dom(final_height, final_width) |->
                       GradientPixel(p, orig_array, corner_source_pixels, border_pixels)]]
    IN  IF GradientReadsOk(orig_array, corner_source_pixels, border_pixels)
        THEN Returned(FromArray(content_array, newId), <<"_generate_clean_gradient_content">>)
        ELSE Raised("IndexError", <<"_generate_clean_gradient_content">>)

(***************************************************************************)
(* ImageProcessor.generate_border_content                                   *)
(***************************************************************************)
DispatchNoDefault(method) ==
    CASE method = "edge_repeat" -> "_generate_edge_stretched_content"
      [] method = "smart_fill" -> "_generate_smart_fill_content"
      [] method = "gradient_fade" -> "_generate_clean_gradient_content"
      [] method = "solid_color" -> "_generate_solid_color_content"
      [] OTHER -> "_generate_solid_color_content"

\* the if / elif chain on the method string
Dispatch(method) ==
    CASE method = "edge_repeat" -> "_generate_edge_stretched_content"
      [] method = "smart_fill" -> "_generate_smart_fill_content"
      [] method = "gradient_fade" -> "_generate_clean_gradient_content"
      [] method = "solid_color" -> "_generate_solid_color_content"
      [] OTHER -> "_generate_edge_stretched_content"

generate_border_content(original_image, border_width_mm, dpi, settings, backendFails, fill, newId) ==
    LET border_pixels == _mm_to_pixels(border_width_mm, dpi)
        method == SettingsGet(settings, "stretch_method", "edge_repeat")
        target == Dispatch(method)
    IN  CASE target = "_generate_edge_stretched_content" ->
               _generate_edge_stretched_content(original_image, border_pixels, settings, newId)
          [] target = "_generate_smart_fill_content" ->
               _generate_smart_fill_content(original_image, border_pixels, settings, backendFails, fill, newId)
          [] target = "_generate_clean_gradient_content" ->
               _generate_clean_gradient_content(original_image, border_pixels, settings, newId)
          [] target = "_generate_solid_color_content" ->
               _generate_solid_color_content(original_image, border_pixels, settings, newId)

\* what the last call computed on the way: the source-strip depth S it printed
\* and the request it made to cv2.inpaint
NoProbe == [S |-> 0, inpaint |-> NoRequest]

CallProbe(original_image, border_pixels, settings, result) ==
    LET last == result.calls[Len(result.calls)]
    IN  [S |-> IF last = "_generate_edge_stretched_content"
               THEN StretchSourcePixels(settings, original_image.w, original_image.h, border_pixels)
               ELSE IF last = "_generate_clean_gradient_content" /\ result.status = "returned"
               THEN GradientCornerSourcePixels(settings, original_image.w, original_image.h, border_pixels)
               ELSE 0,
         inpaint |-> IF \E n \in 1 .. Len(result.calls) : result.calls[n] = "_opencv_smart_fill"
                     THEN InpaintRequest(original_image, border_pixels)
                     ELSE NoRequest]

(***************************************************************************)
(* PDFProcessor._replace_image_in_page and its fallbacks.  A page is the    *)
(* list of what it paints, bottom to top, and the streams of its image      *)
(* objects; lengths are thousandths of a point.  PyMuPDF is the environment: *)
(* each of its calls either takes effect or raises.                         *)
(***************************************************************************)
\* mm * 2.834645669, for mm in tenths of a millimetre
_mm_to_points(mm10) == (mm10 * 2834646) \div 10000

Rect(x0, y0, x1, y1) == [x0 |-> x0, y0 |-> y0, x1 |-> x1, y1 |-> y1]

OriginalXref == 1
InsertedXref == 2

\* page.draw_rect(rect, color=(1, 1, 1), fill=(1, 1, 1)): painted after everything on the page
draw_rect(layers, rect) ==
    Append(layers, [kind |-> "rect", xref |-> 0, rect |-> rect, content |-> "white"])

\* page.insert_image(rect, stream=...): in the foreground unless overlay=False
insert_image(layers, rect, overlay) ==
    LET inserted == [kind |-> "image", xref |-> InsertedXref, rect |-> rect, content |-> "bordered"]
    IN  IF overlay THEN Append(layers, inserted) ELSE <<inserted>> \o layers

SimpleOverlayAtPageOrigin(pg, new_rect, insertFails) ==
    IF insertFails
    THEN pg
    ELSE [pg EXCEPT !.layers =
            insert_image(@, Rect(0, 0, new_rect.x1 - new_rect.x0, new_rect.y1 - new_rect.y0), FALSE)]

_simple_image_overlay(pg, new_rect, insertFails) ==
    IF insertFails
    THEN pg
    ELSE [pg EXCEPT !.layers = insert_image(@, new_rect, FALSE)]

_replace_image_alternative(pg, image_info, old_rect, new_rect, updateFails, insertFails) ==
    IF updateFails
    THEN _simple_image_overlay(pg, new_rect, insertFails)
    ELSE [pg EXCEPT !.streams = [@ EXCEPT ![image_info.xref] = "bordered"]]

_replace_image_in_page(pg, image_info, border_width_mm, firstFails, updateFails, insertFails) ==
    LET old_rect == image_info.rect
        border_points == _mm_to_points(border_width_mm)
        new_rect == Rect(old_rect.x0 - border_points, old_rect.y0 - border_points,
                         old_rect.x1 + border_points, old_rect.y1 + border_points)
        covered == [pg EXCEPT !.layers = draw_rect(@, old_rect)]
    IN  IF firstFails = "none"
        THEN [covered EXCEPT !.layers = insert_image(@, new_rect, TRUE)]
        ELSE IF firstFails = "draw_rect"
        THEN _replace_image_alternative(pg, image_info, old_rect, new_rect, updateFails, insertFails)
        ELSE _replace_image_alternative(covered, image_info, old_rect, new_rect, updateFails, insertFails)

(***************************************************************************)
(* Inputs of the model                                                      *)
(***************************************************************************)
Modes == {"L", "LA", "RGB", "RGBA"}
Patterns == {"index", "uniform", "corners"}
Dims == {0, 2, MaxDim}
BorderWidths == {-10, 0, 30}          \* border_width_mm, in tenths of a millimetre
CallDpis == {25, 40}
PressDpi == 300                       \* 3.0 mm is 35 pixels: tried on 2 x 2 images with smart_fill
UnitDpis == {72, 150, 300}
UnitWidths == -10 .. MaxMm10

\* the samples of the test images: all pixels distinct, all pixels equal, or four
\* uniform 2 x 2 corner patches around distinct pixels
PatternPixel(pattern, mode, r, c, h, w) ==
    LET index == (17 * (r * w + c) + 3) % 256
        inPatch == (r < 2 \/ r >= h - 2) /\ (c < 2 \/ c >= w - 2)
        base == IF pattern = "index" THEN index
                ELSE IF pattern = "uniform" THEN 200
                ELSE IF inPatch THEN 200 ELSE index
    IN  [k \in 1 .. Channels(mode) |-> (base + 60 * (k - 1)) % 256]

MakeImage(mode, h, w, pattern) ==
    [id |-> 1, mode |-> mode, h |-> h, w |-> w,
     px |-> [p \in Dom(h, w) |-> PatternPixel(pattern, mode, p[1], p[2], h, w)]]

Images == {MakeImage(m, h, w, pt) : m \in Modes, h \in Dims, w \in Dims, pt \in Patterns}

\* a settings mapping holds any subset of the four keys the ImageProcessor reads
Optional(key, values) == {<<>>} \cup {key :> v : v \in values}

SettingsSet ==
    {a @@ b @@ c @@ d :
        a \in Optional("stretch_method",
                       {"edge_repeat", "smart_fill", "gradient_fade", "solid_color", "edge_stretch"}),
        b \in Optional("stretch_source_width_mm", {-5, 30}),
        c \in Optional("output_dpi", {25}),
        d \in Optional("solid_color", {"#FF0000", "bogus"})}

(***************************************************************************)
(* State.  A behaviour is one ImageProcessor and one caller: the settings,  *)
(* the image and the arguments are fixed at the start and the call may be   *)
(* repeated; what the inpainting backend does is chosen at every call.      *)
(***************************************************************************)
VARIABLES
    settings,    \* ImageProcessor.settings
    original,    \* the caller's image object
    args,        \* border_width_mm (tenths of a millimetre) and dpi of the call
    backend,     \* what the inpainting backend did in the last call
    outcome,     \* what the last call returned or raised
    probe,       \* the source-strip depth and the inpainting request of the last call
    previous,    \* outcome and backend behaviour of the call before the last one
    others,      \* calls other callers have made on the same ImageProcessor
    page,        \* a PDF page: its layers bottom to top and the streams of its image objects
    doc,         \* process_pdf: the document, the page reached and the steps taken
    finder,      \* _find_center_image: the images of a page and the image returned
    batch,       \* ProcessingThread.run: the files of a batch and the signals emitted
    ui,          \* MainWindow: file list, buttons and the processing thread
    config,      \* Config: the stored recent_files and max_recent_files
    conv         \* a unit conversion: two lengths at one dpi and their pixel counts

vars == <<settings, original, args, backend, outcome, probe, previous, others, page,
          doc, finder, batch, ui, config, conv>>

\* the variables of the border generator and of page compositing, and those of the
\* other components
generatorVars == <<settings, original, args, backend, outcome, probe, previous, others, page, conv>>
applicationVars == <<doc, finder, batch, ui, config>>

NoArgs == [border_width_mm |-> 0, dpi |-> 0]
NoBackend == [behaviour |-> "unused", fill |-> 0]
NoOutcome == [status |-> "none", error |-> "", img |-> NoImage, calls |-> <<>>]
NoPrevious == [outcome |-> NoOutcome, backend |-> NoBackend]
NoPage == [layers |-> <<>>, streams |-> <<>>, border_width_mm |-> 0, composited |-> "no"]
NoDoc == [pages |-> <<>>, add_processing_info |-> FALSE, pc |-> "none", page_num |-> 0,
          trace |-> <<>>, saved |-> 0, closed |-> FALSE, error |-> "", env_failed |-> FALSE]
NoFinder == [width |-> 0, height |-> 0, images |-> <<>>, done |-> FALSE,
             result |-> [index |-> -1, xref |-> 0, rect |-> [x0 |-> 0, y0 |-> 0, x1 |-> 0, y1 |-> 0],
                         width |-> 0, height |-> 0]]
NoBatch == [files |-> <<>>, i |-> 0, pc |-> "none", signals |-> <<>>]
NoUi == [file_list |-> <<>>, preview_btn |-> FALSE, process_btn |-> FALSE,
         processing_thread |-> 0, running |-> {}, started |-> 0, open |-> FALSE]
NoConfig == [recent_files |-> <<>>, max_recent_files |-> <<>>, added |-> <<>>, loaded |-> FALSE]
Idle ==
    /\ doc = NoDoc
    /\ finder = NoFinder
    /\ batch = NoBatch
    /\ ui = NoUi
    /\ config = NoConfig
NoConv == [dpi |-> 0, mm1 |-> 0, mm2 |-> 0, p1 |-> 0, p2 |-> 0, done |-> FALSE]

\* nothing of the border generator or of page compositing is in use
GeneratorIdle ==
    /\ settings = <<>>
    /\ original = NoImage
    /\ args = NoArgs
    /\ backend = NoBackend
    /\ outcome = NoOutcome
    /\ probe = NoProbe
    /\ previous = NoPrevious
    /\ others = 0
    /\ page = NoPage
    /\ conv = NoConv

\* ImageProcessor.__init__(settings), and the caller's image and arguments
Init ==
    /\ settings \in SettingsSet
    /\ original \in Images
    /\ args \in [border_width_mm : BorderWidths, dpi : CallDpis \cup {PressDpi}]
    /\ (args.dpi = PressDpi) =>
          /\ settings = ("stretch_method" :> "smart_fill")
          /\ original.h = 2
          /\ original.w = 2
          /\ args.border_width_mm = 30
    /\ backend = NoBackend
    /\ outcome = NoOutcome
    /\ probe = NoProbe
    /\ previous = NoPrevious
    /\ others = 0
    /\ page = NoPage
    /\ Idle
    /\ conv = NoConv

\* the fields of the ImageProcessor after a call: self.settings is its only field and
\* the call assigns no attribute of self
ProcessorStateCachesDpi(processor_settings, dpi) ==
    [k \in DOMAIN processor_settings \cup {"output_dpi"} |->
        IF k = "output_dpi" THEN dpi ELSE processor_settings[k]]

ProcessorStateAfterCall(processor_settings, dpi) ==
    SettingsAfterGet(processor_settings, "stretch_method", "edge_repeat")

\* one call of generate_border_content; the backend is consulted by smart_fill only
GenerateBorderContent ==
    \E backendFails \in BOOLEAN, fill \in InpaintFills :
        LET usesBackend == Dispatch(SettingsGet(settings, "stretch_method", "edge_repeat"))
                              = "_generate_smart_fill_content"
        IN  /\ usesBackend \/ (~backendFails /\ fill = 0)
            /\ backendFails => fill = 0
            /\ outcome' = generate_border_content(original, args.border_width_mm, args.dpi,
                                                  settings, backendFails, fill, original.id + 1)
            /\ probe' = CallProbe(original, _mm_to_pixels(args.border_width_mm, args.dpi),
                                  settings, outcome')
            /\ settings' = ProcessorStateAfterCall(settings, args.dpi)
            /\ backend' = [behaviour |-> IF ~usesBackend THEN "unused"
                                         ELSE IF backendFails THEN "raises" ELSE "returns",
                           fill |-> fill]
            /\ UNCHANGED <<original, args, previous, others, page, conv, applicationVars>>

Next == GenerateBorderContent

Spec == Init /\ [][Next]_vars

(***************************************************************************)
(* Repeated calls on one ImageProcessor: the same arguments are passed      *)
(* again, with calls of other callers (other images, other resolutions) in  *)
(* between                                                                  *)
(***************************************************************************)
MaxOther == 1
OtherDpis == CallDpis \cup {72}
CallImages == {MakeImage(m, MaxDim, MaxDim, "index") : m \in Modes}

InitCalls ==
    /\ settings \in SettingsSet
    /\ original \in CallImages
    /\ args \in [border_width_mm : {30}, dpi : CallDpis]
    /\ backend = NoBackend
    /\ outcome = NoOutcome
    /\ probe = NoProbe
    /\ previous = NoPrevious
    /\ others = 0
    /\ page = NoPage
    /\ Idle
    /\ conv = NoConv

\* the call under observation, made again with the same arguments
RepeatedCall ==
    \E backendFails \in BOOLEAN, fill \in InpaintFills :
        LET usesBackend == Dispatch(SettingsGet(settings, "stretch_method", "edge_repeat"))
                              = "_generate_smart_fill_content"
        IN  /\ usesBackend \/ (~backendFails /\ fill = 0)
            /\ backendFails => fill = 0
            /\ outcome' = generate_border_content(original, args.border_width_mm, args.dpi,
                                                  settings, backendFails, fill, original.id + 1)
            /\ probe' = CallProbe(original, _mm_to_pixels(args.border_width_mm, args.dpi),
                                  settings, outcome')
            /\ settings' = ProcessorStateAfterCall(settings, args.dpi)
            /\ backend' = [behaviour |-> IF ~usesBackend THEN "unused"
                                         ELSE IF backendFails THEN "raises" ELSE "returns",
                           fill |-> fill]
            /\ previous' = [outcome |-> outcome, backend |-> backend]
            /\ UNCHANGED <<original, args, others, page, conv, applicationVars>>

\* a call of another caller on the same ImageProcessor, with its own image and dpi:
\* its result goes to that caller, the processor is what it leaves behind here
OtherCall ==
    \E dpi \in OtherDpis :
        /\ outcome.status # "none"
        /\ others < MaxOther
        /\ settings' = ProcessorStateAfterCall(settings, dpi)
        /\ others' = others + 1
        /\ UNCHANGED <<original, args, backend, outcome, probe, previous, page, conv, applicationVars>>

NextCalls == RepeatedCall \/ OtherCall

SpecCalls == InitCalls /\ [][NextCalls]_vars

(***************************************************************************)
(* Compositing one page: the center image of the page is layer 1, cut marks *)
(* lie above it, and _replace_image_in_page is called once with the         *)
(* processed image                                                          *)
(***************************************************************************)
PageOrigins == {100000, 150000}
PageSizes == {200000, 300000}
PageBorderWidths == {0, 30, 50}
MarkRects == {Rect(90000, 90000, 95000, 91000), Rect(500000, 90000, 505000, 91000)}

CenterImageLayer(x0, size) ==
    [kind |-> "image", xref |-> OriginalXref, rect |-> Rect(x0, x0, x0 + size, x0 + size),
     content |-> "original"]

MarkLayer(rect) == [kind |-> "mark", xref |-> 0, rect |-> rect, content |-> "mark"]

MarkLayers == {<<>>} \cup {<<MarkLayer(m)>> : m \in MarkRects}

InitPage ==
    /\ settings = <<>>
    /\ original = NoImage
    /\ args = NoArgs
    /\ backend = NoBackend
    /\ outcome = NoOutcome
    /\ probe = NoProbe
    /\ previous = NoPrevious
    /\ others = 0
    /\ Idle
    /\ conv = NoConv
    /\ \E x0 \in PageOrigins, size \in PageSizes, marks \in MarkLayers, mm \in PageBorderWidths :
          page = [layers |-> <<CenterImageLayer(x0, size)>> \o marks,
                  streams |-> (OriginalXref :> "original"),
                  border_width_mm |-> mm,
                  composited |-> "no"]

\* the image_info _find_center_image returns for the page
ImageInfo(pg) == [xref |-> pg.layers[1].xref, rect |-> pg.layers[1].rect]

ReplaceImageInPage ==
    \E firstFails \in {"none", "draw_rect", "insert_image"}, updateFails, insertFails \in BOOLEAN :
        /\ page.composited = "no"
        /\ (firstFails = "none") => (~updateFails /\ ~insertFails)
        /\ ~updateFails => ~insertFails
        /\ page' = [_replace_image_in_page(page, ImageInfo(page), page.border_width_mm,
                                           firstFails, updateFails, insertFails)
                        EXCEPT !.composited =
                            IF firstFails = "none" THEN "method 1"
                            ELSE IF ~updateFails THEN "method 2"
                            ELSE IF ~insertFails THEN "method 3"
                            ELSE "failed"]
        /\ UNCHANGED <<settings, original, args, backend, outcome, probe, previous, others, conv, applicationVars>>

NextPage == ReplaceImageInPage

SpecPage == InitPage /\ [][NextPage]_vars

(***************************************************************************)
(* PDFProcessor.process_pdf: the page loop, the save and the finally        *)
(* clause.  A page either has a center image or not; PyMuPDF and the        *)
(* cut-mark detector are the environment and may raise in any step.         *)
(***************************************************************************)
MaxPages == 3

Documents == UNION {[1 .. n -> BOOLEAN] : n \in 0 .. MaxPages}

Step(name, page_num) == [step |-> name, page |-> page_num]

\* ImageProcessor has no attribute add_border: evaluating self.image_processor.add_border raises
ImageProcessorMethods ==
    {"generate_border_content", "_generate_edge_stretched_content", "_generate_solid_color_content",
     "_stretch_corner_region", "_generate_smart_fill_content", "_opencv_smart_fill",
     "_generate_clean_gradient_content", "_mm_to_pixels"}

\* _process_page_image: the steps it takes and the exception it ends with ("" for none)
_process_page_image(page_num, extractFails) ==
    IF extractFails
    THEN [steps |-> <<Step("extract", page_num)>>, error |-> "RuntimeError"]
    ELSE IF "add_border" \in ImageProcessorMethods
    THEN [steps |-> <<Step("extract", page_num), Step("add_border", page_num)>>, error |-> ""]
    ELSE [steps |-> <<Step("extract", page_num)>>, error |-> "AttributeError"]

\* the body of the page loop for one page
PageBody(d, fails) ==
    LET n == d.page_num + 1
        find == <<Step("find", n)>>
        detect == <<Step("detect", n)>>
        processed == _process_page_image(n, fails = "extract")
    IN  IF fails = "find"
        THEN [d EXCEPT !.trace = @ \o find, !.error = "RuntimeError", !.env_failed = TRUE,
                       !.pc = "finally"]
        ELSE IF ~d.pages[n]
        THEN [d EXCEPT !.trace = @ \o find, !.page_num = n]
        ELSE IF fails = "detect"
        THEN [d EXCEPT !.trace = @ \o find \o detect, !.error = "RuntimeError",
                       !.env_failed = TRUE, !.pc = "finally"]
        ELSE IF processed.error # ""
        THEN [d EXCEPT !.trace = @ \o find \o detect \o processed.steps,
                       !.error = processed.error, !.env_failed = (fails = "extract"),
                       !.pc = "finally"]
        ELSE [d EXCEPT !.trace = @ \o find \o detect \o processed.steps \o <<Step("replace", n)>>,
                       !.page_num = n]

InitDoc ==
    /\ GeneratorIdle
    /\ finder = NoFinder
    /\ batch = NoBatch
    /\ ui = NoUi
    /\ config = NoConfig
    /\ \E pages \in Documents, info \in BOOLEAN :
          doc = [pages |-> pages, add_processing_info |-> info, pc |-> "loop", page_num |-> 0,
                 trace |-> <<>>, saved |-> 0, closed |-> FALSE, error |-> "", env_failed |-> FALSE]

\* one iteration of `for page_num in range(len(doc))`
HandlePage ==
    \E fails \in {"none", "find", "detect", "extract"} :
        /\ doc.pc = "loop"
        /\ doc.page_num < Len(doc.pages)
        /\ (~doc.pages[doc.page_num + 1]) => (fails \in {"none", "find"})
        /\ doc' = PageBody(doc, fails)
        /\ UNCHANGED <<generatorVars, finder, batch, ui, config>>

\* doc.save(...) and the optional metadata, after the loop
SaveDocument ==
    \E saveFails \in BOOLEAN :
        /\ doc.pc = "loop"
        /\ doc.page_num = Len(doc.pages)
        /\ doc' = IF saveFails
                  THEN [doc EXCEPT !.error = "RuntimeError", !.env_failed = TRUE, !.pc = "finally"]
                  ELSE [doc EXCEPT !.saved = @ + 1,
                                   !.trace = @ \o <<Step("save", 0)>>
                                               \o (IF doc.add_processing_info
                                                   THEN <<Step("metadata", 0)>> ELSE <<>>),
                                   !.pc = "finally"]
        /\ UNCHANGED <<generatorVars, finder, batch, ui, config>>

\* finally: doc.close(); then the return or the pending exception
CloseDocument ==
    /\ doc.pc = "finally"
    /\ doc' = [doc EXCEPT !.closed = TRUE, !.pc = IF doc.error = "" THEN "returned" ELSE "raised"]
    /\ UNCHANGED <<generatorVars, finder, batch, ui, config>>

NextDoc == HandlePage \/ SaveDocument \/ CloseDocument

SpecDoc == InitDoc /\ [][NextDoc]_vars

(***************************************************************************)
(* PDFProcessor._find_center_image.  A page has a size and a list of images, *)
(* each placed at a rectangle or not placed at all; lengths are whole       *)
(* points with even coordinates, so that centers are whole too.             *)
(***************************************************************************)
MaxImages == 3

\* what _find_center_image returns for None
NoCenterImage ==
    [index |-> -1, xref |-> 0, rect |-> Rect(0, 0, 0, 0), width |-> 0, height |-> 0]

\* float('inf')
Infinity == -1

\* img_width > min_size and img_height > min_size, min_size = min(page width, page height) * 0.2
QualifiesByHeightOnly(rect, page_width, page_height) ==
    5 * (rect.y1 - rect.y0) > Min2(page_width, page_height)

Qualifies(rect, page_width, page_height) ==
    /\ 5 * (rect.x1 - rect.x0) > Min2(page_width, page_height)
    /\ 5 * (rect.y1 - rect.y0) > Min2(page_width, page_height)

\* four times the squared distance between the centers of the image and of the page:
\* the code compares the square roots
Distance(rect, page_width, page_height) ==
    (rect.x0 + rect.x1 - page_width) * (rect.x0 + rect.x1 - page_width)
    + (rect.y0 + rect.y1 - page_height) * (rect.y0 + rect.y1 - page_height)

\* distance < min_distance
Closer(distance, min_distance) == min_distance = Infinity \/ distance < min_distance

\* the loop over enumerate(image_list), from list position k on
RECURSIVE FindLoop(_, _, _, _)
FindLoop(pg, k, min_distance, center_image) ==
    IF k > Len(pg.images)
    THEN center_image
    ELSE LET img == pg.images[k]
             img_rect == img.rect
             distance == Distance(img_rect, pg.width, pg.height)
         IN  IF img.placed /\ Closer(distance, min_distance)
                /\ Qualifies(img_rect, pg.width, pg.height)
             THEN FindLoop(pg, k + 1, distance,
                           [index |-> k - 1, xref |-> img.xref, rect |-> img_rect,
                            width |-> img_rect.x1 - img_rect.x0,
                            height |-> img_rect.y1 - img_rect.y0])
             ELSE FindLoop(pg, k + 1, min_distance, center_image)

_find_center_image(pg) ==
    IF pg.images = <<>> THEN NoCenterImage ELSE FindLoop(pg, 1, Infinity, NoCenterImage)

\* the placements tried on a 100 x 140 page: a large centered image, a small centered
\* icon, two large images equally far from the center, an image exactly 20% wide, and
\* an image that is on no page
PlacedRects ==
    {Rect(10, 30, 90, 110), Rect(44, 64, 56, 76), Rect(0, 0, 60, 60), Rect(40, 80, 100, 140),
     Rect(40, 50, 60, 90)}

Placements == [placed : {TRUE}, rect : PlacedRects] \cup [placed : {FALSE}, rect : {Rect(0, 0, 0, 0)}]

ImageLists ==
    UNION {{[k \in 1 .. n |-> [xref |-> 10 + k, placed |-> f[k].placed, rect |-> f[k].rect]] :
                f \in [1 .. n -> Placements]} : n \in 0 .. MaxImages}

InitFinder ==
    /\ GeneratorIdle
    /\ doc = NoDoc
    /\ batch = NoBatch
    /\ ui = NoUi
    /\ config = NoConfig
    /\ \E images \in ImageLists :
          finder = [width |-> 100, height |-> 140, images |-> images, done |-> FALSE,
                    result |-> NoCenterImage]

FindCenterImage ==
    /\ ~finder.done
    /\ finder.width > 0
    /\ finder' = [finder EXCEPT !.result = _find_center_image(finder), !.done = TRUE]
    /\ UNCHANGED <<generatorVars, doc, batch, ui, config>>

NextFinder == FindCenterImage

SpecFinder == InitFinder /\ [][NextFinder]_vars

(***************************************************************************)
(* ProcessingThread.run.  self.files is a list of files, each of which       *)
(* makes process_pdf raise or not; a file is named by its list position.    *)
(* batch.signals is the sequence of signals emitted so far.                 *)
(***************************************************************************)
MaxFiles == 4

FileLists == UNION {[1 .. n -> BOOLEAN] : n \in 0 .. MaxFiles}

\* progress_updated.emit(progress, ...)
ProgressUpdated(progress) ==
    [signal |-> "progress_updated", file |-> 0, success |-> FALSE, progress |-> progress]

\* file_completed.emit(file_path, True, output_path) from the try body,
\* file_completed.emit(file_path, False, str(e)) from the except clause
FileCompletedAlwaysTrue(file, raised) ==
    [signal |-> "file_completed", file |-> file, success |-> TRUE, progress |-> -1]

FileCompleted(file, raised) ==
    [signal |-> "file_completed", file |-> file, success |-> ~raised, progress |-> -1]

\* all_completed.emit()
AllCompleted == [signal |-> "all_completed", file |-> 0, success |-> FALSE, progress |-> -1]

\* int((i / total_files) * 100)
Progress(i, total_files) == PyInt(i * 100, total_files)

InitBatch ==
    /\ GeneratorIdle
    /\ doc = NoDoc
    /\ finder = NoFinder
    /\ ui = NoUi
    /\ config = NoConfig
    /\ \E files \in FileLists : batch = [files |-> files, i |-> 0, pc |-> "loop", signals |-> <<>>]

\* one iteration of the loop over enumerate(self.files); batch.i is the index i
\* of the file it handles.  The iteration emits progress, calls process_pdf and
\* emits file_completed from the try body or from the except clause.
RunFile ==
    /\ batch.pc = "loop"
    /\ batch.i < Len(batch.files)
    /\ batch' = [batch EXCEPT
                    !.signals = @ \o <<ProgressUpdated(Progress(batch.i, Len(batch.files))),
                                       FileCompleted(batch.i + 1, batch.files[batch.i + 1])>>,
                    !.i = @ + 1]
    /\ UNCHANGED <<generatorVars, doc, finder, ui, config>>

\* after the loop: progress 100, then all_completed
RunFinished ==
    /\ batch.pc = "loop"
    /\ batch.i = Len(batch.files)
    /\ batch' = [batch EXCEPT !.signals = @ \o <<ProgressUpdated(100), AllCompleted>>,
                              !.pc = "returned"]
    /\ UNCHANGED <<generatorVars, doc, finder, ui, config>>

NextBatch == RunFile \/ RunFinished

SpecBatch == InitBatch /\ [][NextBatch]_vars

\* the thread is scheduled until run returns
FairSpecBatch == SpecBatch /\ WF_vars(NextBatch)

(***************************************************************************)
(* MainWindow: the file list, the Preview and Process Files buttons and the  *)
(* processing thread.  Paths are numbered; path 0 is a file the validator   *)
(* rejects.  Threads are numbered in order of creation, 0 is None;          *)
(* ui.running holds the threads whose run has not yet emitted all_completed. *)
(* The handlers run on the GUI thread, one at a time, while a processing    *)
(* thread advances on its own.                                              *)
(***************************************************************************)
MaxPaths == 3
MaxThreads == 2

ValidPaths == 1 .. MaxPaths

\* what a drop or the file dialog hands to add_files
DroppedFiles == UNION {[1 .. n -> 0 .. MaxPaths] : n \in 1 .. 2}

\* self.validator.validate_pdf(file_path)
validate_pdf(file_path) == file_path \in ValidPaths

Items(file_list) == {file_list[k] : k \in DOMAIN file_list}

\* the loop of add_files from position k on: the list and added_count
RECURSIVE AddLoop(_, _, _, _)
AddLoop(files, k, file_list, added_count) ==
    IF k > Len(files)
    THEN [file_list |-> file_list, added_count |-> added_count]
    ELSE IF validate_pdf(files[k]) /\ files[k] \notin Items(file_list)
         THEN AddLoop(files, k + 1, Append(file_list, files[k]), added_count + 1)
         ELSE AddLoop(files, k + 1, file_list, added_count)

\* file_list.takeItem(current_row), rows counted from 0
takeItem(file_list, current_row) ==
    [k \in 1 .. Len(file_list) - 1 |->
        IF k <= current_row THEN file_list[k] ELSE file_list[k + 1]]

update_ui_state(u) ==
    LET has_files == Len(u.file_list) > 0
    IN  [u EXCEPT !.preview_btn = has_files, !.process_btn = has_files]

\* MainWindow.__init__: no thread, an empty list, both buttons disabled
InitUi ==
    /\ GeneratorIdle
    /\ doc = NoDoc
    /\ finder = NoFinder
    /\ batch = NoBatch
    /\ config = NoConfig
    /\ ui = [file_list |-> <<>>, preview_btn |-> FALSE, process_btn |-> FALSE,
             processing_thread |-> 0, running |-> {}, started |-> 0, open |-> TRUE]

add_files ==
    /\ ui.open
    /\ \E files \in DroppedFiles :
          LET added == AddLoop(files, 1, ui.file_list, 0)
              listed == [ui EXCEPT !.file_list = added.file_list]
          IN  ui' = IF added.added_count > 0 THEN update_ui_state(listed) ELSE listed
    /\ UNCHANGED <<generatorVars, doc, finder, batch, config>>

clear_files ==
    /\ ui.open
    /\ ui' = update_ui_state([ui EXCEPT !.file_list = <<>>])
    /\ UNCHANGED <<generatorVars, doc, finder, batch, config>>

\* currentRow() is -1 when no row is selected
remove_selected ==
    /\ ui.open
    /\ \E current_row \in -1 .. Len(ui.file_list) - 1 :
          ui' = IF current_row >= 0
                THEN update_ui_state([ui EXCEPT !.file_list = takeItem(@, current_row)])
                ELSE ui
    /\ UNCHANGED <<generatorVars, doc, finder, batch, config>>

\* the slot of process_btn.clicked: a disabled button emits no click
process_files ==
    /\ ui.open
    /\ ui.process_btn
    /\ ui.started < MaxThreads
    /\ ui' = IF Len(ui.file_list) = 0
             THEN ui
             ELSE [ui EXCEPT !.process_btn = FALSE, !.preview_btn = FALSE,
                             !.processing_thread = ui.started + 1,
                             !.running = @ \cup {ui.started + 1},
                             !.started = @ + 1]
    /\ UNCHANGED <<generatorVars, doc, finder, batch, config>>

\* a running thread reaches the end of ProcessingThread.run and emits all_completed
all_completed ==
    /\ ui.open
    /\ \E thread \in ui.running : ui' = [ui EXCEPT !.running = @ \ {thread}]
    /\ UNCHANGED <<generatorVars, doc, finder, batch, config>>

NextUi == add_files \/ clear_files \/ remove_selected \/ process_files \/ all_completed

SpecUi == InitUi /\ [][NextUi]_vars

(***************************************************************************)
(* Config: the recent-files list.  The settings live in a ConfigParser, as   *)
(* text: a path is a sequence of characters, the list is stored as the JSON *)
(* text of its paths (config.recent_files holds the path texts as stored)   *)
(* and max_recent_files as its decimal digits.  ConfigParser() interpolates: *)
(* set rejects a value with a lone "%", get turns "%%" into "%".            *)
(* config.added records the paths handed to add_recent_file, in order.      *)
(***************************************************************************)
MaxCalls == 4

RecentPaths == {<<"a">>, <<"b">>, <<"c">>, <<"a", "%">>, <<"b", "%", "%">>}
RecentLimits == {2, 3, 10}

\* str(value) of a non-negative integer, as decimal digits
RECURSIVE Digits(_)
Digits(n) == IF n < 10 THEN <<n>> ELSE Append(Digits(n \div 10), n % 10)

\* int(float(value)) of decimal digits
RECURSIVE ParseInt(_)
ParseInt(ds) ==
    IF ds = <<>> THEN 0 ELSE 10 * ParseInt(SubSeq(ds, 1, Len(ds) - 1)) + ds[Len(ds)]

\* value.replace('%%', '')
RECURSIVE ReplacePairs(_)
ReplacePairs(text) ==
    IF text = <<>> THEN <<>>
    ELSE IF Len(text) >= 2 /\ text[1] = "%" /\ text[2] = "%"
         THEN ReplacePairs(SubSeq(text, 3, Len(text)))
         ELSE <<text[1]>> \o ReplacePairs(Tail(text))

\* BasicInterpolation.before_set: ValueError when a "%" is left
before_set_raises(text) == \E k \in DOMAIN ReplacePairs(text) : ReplacePairs(text)[k] = "%"

\* BasicInterpolation.before_get: "%%" becomes "%", a lone "%" is a syntax error
RECURSIVE before_get(_)
before_get(text) ==
    IF text = <<>> THEN [raises |-> FALSE, text |-> <<>>]
    ELSE IF text[1] # "%"
         THEN LET rest == before_get(Tail(text))
              IN  [raises |-> rest.raises, text |-> <<text[1]>> \o rest.text]
         ELSE IF Len(text) >= 2 /\ text[2] = "%"
              THEN LET rest == before_get(SubSeq(text, 3, Len(text)))
                   IN  [raises |-> rest.raises, text |-> <<"%">> \o rest.text]
              ELSE [raises |-> TRUE, text |-> <<>>]

\* get_setting('recent_files', []): the interpolated text parsed as JSON, or the default
get_recent_files_setting(c) ==
    IF \E k \in DOMAIN c.recent_files : before_get(c.recent_files[k]).raises
    THEN <<>>
    ELSE [k \in DOMAIN c.recent_files |-> before_get(c.recent_files[k]).text]

\* get_setting('max_recent_files', 10)
get_max_recent_files(c) == ParseInt(c.max_recent_files)

\* set_setting('recent_files', value): the error of config.set is printed and swallowed
set_recent_files_setting(c, value) ==
    IF \E k \in DOMAIN value : before_set_raises(value[k])
    THEN c
    ELSE [c EXCEPT !.recent_files = value]

\* list.remove(x): the first occurrence
RECURSIVE Remove(_, _)
Remove(list, x) ==
    IF list = <<>> THEN <<>>
    ELSE IF list[1] = x THEN Tail(list) ELSE <<list[1]>> \o Remove(Tail(list), x)

Contains(list, x) == \E k \in DOMAIN list : list[k] = x

\* list[:n]
Prefix(list, n) ==
    LET stop == IF n >= 0 THEN Min2(n, Len(list)) ELSE Max2(Len(list) + n, 0)
    IN  SubSeq(list, 1, stop)

add_recent_file(c, file_path) ==
    LET recent_files == get_recent_files_setting(c)
        removed == IF Contains(recent_files, file_path) THEN Remove(recent_files, file_path)
                   ELSE recent_files
        inserted == <<file_path>> \o removed
        max_recent == get_max_recent_files(c)
    IN  set_recent_files_setting(c, Prefix(inserted, max_recent))

\* Config(): the defaults, recent_files = [], and a max_recent_files from the settings file
InitConfig ==
    /\ GeneratorIdle
    /\ doc = NoDoc
    /\ finder = NoFinder
    /\ batch = NoBatch
    /\ ui = NoUi
    /\ \E limit \in RecentLimits :
          config = [recent_files |-> <<>>, max_recent_files |-> Digits(limit), added |-> <<>>,
                    loaded |-> TRUE]

AddRecentFile ==
    /\ config.loaded
    /\ Len(config.added) < MaxCalls
    /\ \E file_path \in RecentPaths :
          config' = [add_recent_file(config, file_path) EXCEPT !.added = Append(@, file_path)]
    /\ UNCHANGED <<generatorVars, doc, finder, batch, ui>>

NextConfig == AddRecentFile

SpecConfig == InitConfig /\ [][NextConfig]_vars

(***************************************************************************)
(* Unit conversion on its own: _mm_to_pixels applied to two lengths at one  *)
(* resolution                                                               *)
(***************************************************************************)
InitUnits ==
    /\ settings = <<>>
    /\ original = NoImage
    /\ args = NoArgs
    /\ backend = NoBackend
    /\ outcome = NoOutcome
    /\ probe = NoProbe
    /\ previous = NoPrevious
    /\ others = 0
    /\ page = NoPage
    /\ Idle
    /\ conv \in [dpi : UnitDpis, mm1 : UnitWidths, mm2 : UnitWidths, p1 : {0}, p2 : {0}, done : {FALSE}]

MmToPixelsCall ==
    /\ conv' = [conv EXCEPT !.p1 = _mm_to_pixels(conv.mm1, conv.dpi),
                            !.p2 = _mm_to_pixels(conv.mm2, conv.dpi),
                            !.done = TRUE]
    /\ UNCHANGED <<settings, original, args, backend, outcome, probe, previous, others, page, applicationVars>>

NextUnits == MmToPixelsCall

SpecUnits == InitUnits /\ [][NextUnits]_vars

(***************************************************************************)
(* The call in the current state                                            *)
(***************************************************************************)
Called == outcome.status # "none"
ReturnedImage == outcome.status = "returned"
NonEmpty == original.h >= 1 /\ original.w >= 1
BorderPixels == _mm_to_pixels(args.border_width_mm, args.dpi)
Method == SettingsGet(settings, "stretch_method", "edge_repeat")
ValidArgs == args.border_width_mm > 0 /\ args.dpi > 0
KnownMethods == {"edge_repeat", "smart_fill", "gradient_fade", "solid_color"}

\* _opencv_smart_fill raised: the backend failed, or the colour conversion rejected the array
OpenCvRaised ==
    \/ backend.behaviour = "raises"
    \/ (NpArray(original).ch # 0 /\ ~CvtColorOk(NpArray(original)))

(***************************************************************************)
(* C1: center preservation.  Whenever a call with a positive border width    *)
(* on an image of height and width >= 1 returns, the result has the        *)
(* channel count of the original                                            *)
(* and its pixel at (B + r, B + c) equals the original's pixel at (r, c),   *)
(* under every method.                                                      *)
(***************************************************************************)
C1_CenterPreserved ==
    (ReturnedImage /\ NonEmpty /\ ValidArgs) =>
        /\ Channels(outcome.img.mode) = Channels(original.mode)
        /\ outcome.img.h >= BorderPixels + original.h
        /\ outcome.img.w >= BorderPixels + original.w
        /\ \A p \in Dom(original.h, original.w) :
              outcome.img.px[<<BorderPixels + p[1], BorderPixels + p[2]>>] = original.px[p]

(***************************************************************************)
(* C2: size law.  Whenever a call with a positive border width on a          *)
(* non-empty image returns, the result has shape (H + 2B, W + 2B, C) with   *)
(* C the channel count of the input.                                        *)
(***************************************************************************)
C2_SizeLaw ==
    (ReturnedImage /\ NonEmpty /\ ValidArgs) =>
        ShapeOf(outcome.img) =
            <<original.h + 2 * BorderPixels, original.w + 2 * BorderPixels, Channels(original.mode)>>

(***************************************************************************)
(* C3: no exception escapes a call with a positive border width on a         *)
(* non-empty image: every such call returns an image.                       *)
(***************************************************************************)
C3_NoExceptionEscapes == (Called /\ NonEmpty /\ ValidArgs) => ReturnedImage

(***************************************************************************)
(* C4: smart-fill fallback.  With method smart_fill, when _opencv_smart_fill *)
(* raises, the call ends exactly as _generate_edge_stretched_content ends   *)
(* for the same image and B: the same returned raster, of size              *)
(* (H + 2B, W + 2B), with the original at its center.                       *)
(***************************************************************************)
C4_SmartFillFallback ==
    (Called /\ Method = "smart_fill" /\ OpenCvRaised) =>
        LET es == _generate_edge_stretched_content(original, BorderPixels, settings, original.id + 1)
        IN  /\ outcome.status = es.status
            /\ outcome.img = es.img
            /\ NonEmpty =>
                  /\ ReturnedImage
                  /\ outcome.img.h = original.h + 2 * BorderPixels
                  /\ outcome.img.w = original.w + 2 * BorderPixels
                  /\ outcome.img.mode = original.mode
                  /\ \A p \in Dom(original.h, original.w) :
                        outcome.img.px[<<BorderPixels + p[1], BorderPixels + p[2]>>] = original.px[p]

C4_Witness ==
    /\ ReturnedImage /\ Method = "smart_fill" /\ backend.behaviour = "raises"
    /\ original.h = MaxDim /\ original.w = MaxDim
    /\ outcome.calls = <<"_generate_smart_fill_content", "_opencv_smart_fill",
                         "_generate_edge_stretched_content">>

(***************************************************************************)
(* C5: method dispatch.  The call enters exactly one strategy, chosen by    *)
(* the configured method; any other value, and a missing method, selects    *)
(* edge-stretch.  Only the smart-fill strategy enters further methods.      *)
(***************************************************************************)
C5_MethodDispatch ==
    Called =>
        LET configured == "stretch_method" \in DOMAIN settings
            m == IF configured THEN settings["stretch_method"] ELSE "none"
            expected ==
                IF configured /\ m = "smart_fill" THEN "_generate_smart_fill_content"
                ELSE IF configured /\ m = "gradient_fade" THEN "_generate_clean_gradient_content"
                ELSE IF configured /\ m = "solid_color" THEN "_generate_solid_color_content"
                ELSE "_generate_edge_stretched_content"
        IN  /\ Len(outcome.calls) >= 1
            /\ outcome.calls[1] = expected
            /\ expected # "_generate_smart_fill_content" => outcome.calls = <<expected>>

C5_Witness ==
    /\ ReturnedImage
    /\ "stretch_method" \in DOMAIN settings
    /\ settings["stretch_method"] = "edge_stretch"
    /\ outcome.calls = <<"_generate_edge_stretched_content">>

(***************************************************************************)
(* C6: unit conversion rounds to nearest: for mm > 0 the pixel count is     *)
(* max(1, round(mm / 25.4 * dpi)).                                          *)
(***************************************************************************)
C6_RoundsToNearest ==
    (conv.done /\ conv.mm1 > 0) => conv.p1 = Max2(1, PyRound(conv.mm1 * conv.dpi, 254))

(***************************************************************************)
(* C7: at a fixed dpi the pixel count is monotonic non-decreasing in the    *)
(* length and is always >= 1, also for lengths <= 0.                        *)
(***************************************************************************)
C7_MonotonicAtLeastOne ==
    conv.done =>
        /\ conv.p1 >= 1
        /\ conv.p2 >= 1
        /\ conv.mm1 <= conv.mm2 => conv.p1 <= conv.p2

C7_Witness == conv.done /\ conv.mm1 < 0 /\ conv.mm2 > 0 /\ conv.p1 = 1 /\ conv.p2 > conv.p1

(***************************************************************************)
(* C8: fatal empty input.  A call with a positive border width on an image   *)
(* of height or width 0 ends in a raised error under every method, never    *)
(* in a returned raster.                                                    *)
(***************************************************************************)
C8_EmptyInputFails == (Called /\ ~NonEmpty /\ ValidArgs) => outcome.status = "raised"

(***************************************************************************)
(* C9: configuration errors are resolved by defaulting.  For a non-empty    *)
(* image and settings whose only defects are a non-positive border width,   *)
(* a non-positive source width or an unrecognised method, the call returns  *)
(* a raster of size (H + 2B, W + 2B) with B >= 1 (B = 1 for a non-positive  *)
(* border width); an unrecognised method runs edge-stretch, and a           *)
(* non-positive source width gives S = 1: every edge-stretch band line is   *)
(* the outermost source line.                                               *)
(***************************************************************************)
ConfigError ==
    \/ args.border_width_mm <= 0
    \/ ("stretch_source_width_mm" \in DOMAIN settings /\ settings["stretch_source_width_mm"] <= 0)
    \/ Method \notin KnownMethods

OtherwiseValid == ColorValid(SettingsGet(settings, "solid_color", "#FFFFFF"))

C9_ConfigErrorsDefaulted ==
    (Called /\ NonEmpty /\ ConfigError /\ OtherwiseValid) =>
        LET B == (outcome.img.h - original.h) \div 2
            H == original.h
            W == original.w
        IN  /\ ReturnedImage
            /\ B >= 1
            /\ outcome.img.h = H + 2 * B
            /\ outcome.img.w = W + 2 * B
            /\ args.border_width_mm <= 0 => B = 1
            /\ Method \notin KnownMethods => outcome.calls = <<"_generate_edge_stretched_content">>
            /\ StretchSourcePixels(settings, W, H, B) >= 1
            /\ ( /\ outcome.calls = <<"_generate_edge_stretched_content">>
                 /\ "stretch_source_width_mm" \in DOMAIN settings
                 /\ settings["stretch_source_width_mm"] <= 0 ) =>
                  \A i \in 0 .. B - 1 : \A c \in 0 .. W - 1 :
                      /\ outcome.img.px[<<B - 1 - i, B + c>>] = original.px[<<0, c>>]
                      /\ outcome.img.px[<<B + H + i, B + c>>] = original.px[<<H - 1, c>>]

C9_Witness ==
    /\ ReturnedImage /\ NonEmpty
    /\ args.border_width_mm < 0
    /\ "stretch_source_width_mm" \in DOMAIN settings /\ settings["stretch_source_width_mm"] <= 0
    /\ Method = "edge_stretch"
    /\ original.h = MaxDim
    /\ outcome.img.h = original.h + 2

C12_SolidColor ==
    /\ _mm_to_pixels(30, 300) = 35
    /\ 100 + 2 * _mm_to_pixels(30, 300) = 170
    /\ (Method = "solid_color" /\ ReturnedImage /\ NonEmpty /\ ValidArgs) =>
          /\ outcome.img.h = original.h + 2 * BorderPixels
          /\ outcome.img.w = original.w + 2 * BorderPixels
          /\ \A p \in Dom(outcome.img.h, outcome.img.w) :
                IF InCenter(p, original.h, original.w, BorderPixels)
                THEN outcome.img.px[p] = original.px[<<p[1] - BorderPixels, p[2] - BorderPixels>>]
                ELSE outcome.img.px[p]
                        = ColorPixel(SettingsGet(settings, "solid_color", "#FFFFFF"), outcome.img.mode)

(***************************************************************************)
(* The corner squares of the result and the corner patches of the source   *)
(***************************************************************************)
Corners == {"tl", "tr", "bl", "br"}
LastCall == IF outcome.calls = <<>> THEN "" ELSE outcome.calls[Len(outcome.calls)]
EdgeStretchReturned == ReturnedImage /\ LastCall = "_generate_edge_stretched_content"
GradientReturned == ReturnedImage /\ LastCall = "_generate_clean_gradient_content"

\* where corner square `which` starts in the result, and corner patch `which` in the source
SquareRow(which) == IF which \in {"tl", "tr"} THEN 0 ELSE BorderPixels + original.h
SquareCol(which) == IF which \in {"tl", "bl"} THEN 0 ELSE BorderPixels + original.w
PatchRow(which, S) == IF which \in {"tl", "tr"} THEN 0 ELSE original.h - S
PatchCol(which, S) == IF which \in {"tl", "bl"} THEN 0 ELSE original.w - S

\* the samples found in the S x S corner patch of the source
PatchColors(which, S) ==
    {original.px[<<PatchRow(which, S) + q[1], PatchCol(which, S) + q[2]>>] : q \in Dom(S, S)}

\* the samples found in the B x B corner square of the result
SquareColors(which) ==
    {outcome.img.px[<<SquareRow(which) + t[1], SquareCol(which) + t[2]>>] :
        t \in Dom(BorderPixels, BorderPixels)}

\* C13: corner symmetry. When edge-stretch returns for a non-empty image and the
\* S x S corner patch of the source (S the source depth the call used) holds a single
\* colour c, every pixel of the corresponding B x B corner square of the result is c.
C13_CornerSymmetry ==
    (EdgeStretchReturned /\ NonEmpty) =>
        \A which \in Corners :
            Cardinality(PatchColors(which, probe.S)) = 1
                => SquareColors(which) = PatchColors(which, probe.S)

\* a 2 x 2 uniform corner patch in a source that is not uniform, stretched to a larger square
C13_Witness ==
    /\ EdgeStretchReturned
    /\ probe.S = 2
    /\ BorderPixels > probe.S
    /\ Cardinality({original.px[q] : q \in Dom(original.h, original.w)}) > 1
    /\ \A which \in Corners :
          /\ Cardinality(PatchColors(which, 2)) = 1
          /\ SquareColors(which) = PatchColors(which, 2)

\* C14: the original embedded image is never modified when a page is composited.
\* A step of _replace_image_in_page (fallbacks included) leaves the stream of every
\* image object as it was and either leaves the page's layers as they were or adds
\* exactly one layer, the expanded raster, beneath all of them: the original image
\* and the cut marks keep their place, with nothing painted over them.
C14_OriginalNeverModified ==
    [][/\ page'.streams = page.streams
       /\ \/ page'.layers = page.layers
          \/ /\ Len(page'.layers) = Len(page.layers) + 1
             /\ page'.layers[1].content = "bordered"
             /\ SubSeq(page'.layers, 2, Len(page'.layers)) = page.layers]_vars

\* the pixel count of the configured source width, at the resolution the strategies
\* read for it
SourceWidthPixels ==
    _mm_to_pixels(SettingsGet(settings, "stretch_source_width_mm", 10),
                  SettingsGet(settings, "output_dpi", 300))

\* C15: source-strip depth clamp. When edge-stretch or gradient-fade returns for a
\* non-empty image, the depth S it used is
\* max(1, min(_mm_to_pixels(source_width_mm, dpi), B, H // 4, W // 4)); so S >= 1,
\* and S <= B, S <= H / 4, S <= W / 4 when min(H, W) >= 4: the border width enters
\* S only as the cap B.
C15_SourceDepthClamp ==
    ((EdgeStretchReturned \/ GradientReturned) /\ NonEmpty) =>
        /\ probe.S = Max2(1, Min2(Min2(SourceWidthPixels, BorderPixels),
                                  Min2(original.h \div 4, original.w \div 4)))
        /\ probe.S >= 1
        /\ (Min2(original.h, original.w) >= 4) =>
              /\ probe.S <= BorderPixels
              /\ 4 * probe.S <= original.h
              /\ 4 * probe.S <= original.w

\* gradient-fade with a configured source width of many pixels, cut down to H // 4 = 2
C15_Witness ==
    /\ GradientReturned
    /\ Min2(original.h, original.w) >= 4
    /\ SourceWidthPixels > 2
    /\ BorderPixels >= 2
    /\ probe.S = 2

\* C16: edge-stretch band mapping. When edge-stretch returns for a non-empty image,
\* with S the source depth used and k = min(i * S // B, S - 1) for i in [0, B):
\* output[B-1-i, B+c] = original[k, c], output[B+H+i, B+c] = original[H-1-k, c],
\* output[B+r, B-1-i] = original[r, k] and output[B+r, B+W+i] = original[r, W-1-k],
\* unfaded; the bands read the outermost S rows and columns only (S = 2 for a
\* 10 x 10 source with a 1.0 mm source width and B = 35 at 300 dpi).
C16_BandMapping ==
    /\ Max2(1, Min2(Min2(_mm_to_pixels(10, 300), _mm_to_pixels(30, 300)), Min2(10 \div 4, 10 \div 4))) = 2
    /\ (EdgeStretchReturned /\ NonEmpty) =>
          LET B == BorderPixels
              H == original.h
              W == original.w
              S == probe.S
              out == outcome.img.px
          IN  \A i \in 0 .. B - 1 :
                  LET k == Min2((i * S) \div B, S - 1)
                  IN  /\ k < S
                      /\ \A c \in 0 .. W - 1 :
                            /\ out[<<B - 1 - i, B + c>>] = original.px[<<k, c>>]
                            /\ out[<<B + H + i, B + c>>] = original.px[<<H - 1 - k, c>>]
                      /\ \A r \in 0 .. H - 1 :
                            /\ out[<<B + r, B - 1 - i>>] = original.px[<<r, k>>]
                            /\ out[<<B + r, B + W + i>>] = original.px[<<r, W - 1 - k>>]

\* a band of four lines fed from two source lines of an image whose pixels all differ
C16_Witness ==
    /\ EdgeStretchReturned
    /\ probe.S = 2
    /\ BorderPixels = 4
    /\ original.h = MaxDim
    /\ original.px[<<1, 3>>] # original.px[<<0, 3>>]
    /\ outcome.img.px[<<BorderPixels - 1 - 2, BorderPixels + 3>>] = original.px[<<1, 3>>]
    /\ outcome.img.px[<<BorderPixels - 1 - 1, BorderPixels + 3>>] = original.px[<<0, 3>>]

\* the array _stretch_corner_region returns for corner patch `which` of the source
StretchedPatch(which) ==
    _stretch_corner_region(CornerRegion(NpArray(original), probe.S, which), BorderPixels)

\* C17: corner-stretch helper. When edge-stretch returns for a non-empty image, with
\* S the source depth used: the stretch of each S x S corner patch is a B x B array
\* of the source's channel count with
\* stretched[y, x] = patch[min(y*S // B, S-1), min(x*S // B, S-1)], and the four
\* stretched patches lie unmodified in the four corner squares of the result:
\* top-left at [0:B, 0:B], top-right at [0:B, B+W:], bottom-left at [B+H:, 0:B],
\* bottom-right at [B+H:, B+W:].
C17_CornerStretch ==
    (EdgeStretchReturned /\ NonEmpty) =>
        LET B == BorderPixels
            S == probe.S
        IN  /\ outcome.img.h = original.h + 2 * B
            /\ outcome.img.w = original.w + 2 * B
            /\ \A which \in Corners :
                  /\ StretchedPatch(which).h = B
                  /\ StretchedPatch(which).w = B
                  /\ StretchedPatch(which).ch = NpArray(original).ch
                  /\ Channels(outcome.img.mode) = Channels(original.mode)
                  /\ \A t \in Dom(B, B) :
                        /\ StretchedPatch(which).px[t]
                              = original.px[<<PatchRow(which, S) + Min2((t[1] * S) \div B, S - 1),
                                              PatchCol(which, S) + Min2((t[2] * S) \div B, S - 1)>>]
                        /\ outcome.img.px[<<SquareRow(which) + t[1], SquareCol(which) + t[2]>>]
                              = StretchedPatch(which).px[t]

\* a 2 x 2 patch of four different pixels stretched to 4 x 4 in the top-right corner
C17_Witness ==
    /\ EdgeStretchReturned
    /\ probe.S = 2
    /\ BorderPixels = 4
    /\ Cardinality(PatchColors("tr", 2)) = 4
    /\ outcome.img.px[<<0, BorderPixels + original.w + 3>>] = original.px[<<0, original.w - 1>>]
    /\ outcome.img.px[<<3, BorderPixels + original.w>>] = original.px[<<1, original.w - 2>>]

(***************************************************************************)
(* The band lines of the result: line i of an edge's band, counted outward  *)
(* from the original, and the outermost source line of that edge; j runs    *)
(* along the edge                                                           *)
(***************************************************************************)
Edges == {"top", "bottom", "left", "right"}
EdgeLength(edge) == IF edge \in {"top", "bottom"} THEN original.w ELSE original.h

BandPixel(edge, i, j) ==
    LET B == BorderPixels
    IN  outcome.img.px[IF edge = "top" THEN <<B - 1 - i, B + j>>
                       ELSE IF edge = "bottom" THEN <<B + original.h + i, B + j>>
                       ELSE IF edge = "left" THEN <<B + j, B - 1 - i>>
                       ELSE <<B + j, B + original.w + i>>]

OutermostPixel(edge, j) ==
    original.px[IF edge = "top" THEN <<0, j>>
                ELSE IF edge = "bottom" THEN <<original.h - 1, j>>
                ELSE IF edge = "left" THEN <<j, 0>>
                ELSE <<j, original.w - 1>>]

\* faded is source * (1 - (i / B) * 0.1) truncated to an integer, the factor being
\* (10 B - i) / (10 B) >= 0.9 for i < B
TruncatedFade(faded, source, i, B) ==
    /\ 10 * B * faded <= source * (10 * B - i)
    /\ source * (10 * B - i) < 10 * B * (faded + 1)

\* C18: gradient-fade bands. When gradient-fade returns for a non-empty image, every
\* sample v' of the band line at distance i in [0, B) is the sample v of the
\* outermost source row / column of that edge times max(0.9, 1 - (i / B) * 0.1),
\* truncated: the line at i = 0 equals the outermost line, floor(0.9 v) <= v' <= v,
\* and v' does not increase with i.
C18_GradientBands ==
    (GradientReturned /\ NonEmpty) =>
        \A edge \in Edges : \A j \in 0 .. EdgeLength(edge) - 1 : \A i \in 0 .. BorderPixels - 1 :
            /\ Len(BandPixel(edge, i, j)) = Channels(original.mode)
            /\ \A n \in 1 .. Channels(original.mode) :
                  LET v == OutermostPixel(edge, j)[n]
                      faded == BandPixel(edge, i, j)[n]
                  IN  /\ TruncatedFade(faded, v, i, BorderPixels)
                      /\ (i = 0) => (faded = v)
                      /\ (9 * v) \div 10 <= faded
                      /\ faded <= v
                      /\ (i + 1 < BorderPixels) => (BandPixel(edge, i + 1, j)[n] <= faded)

\* a band of four lines whose outer line is strictly darker than the source line
C18_Witness ==
    /\ GradientReturned
    /\ NonEmpty
    /\ BorderPixels = 4
    /\ BandPixel("right", 0, 1) = OutermostPixel("right", 1)
    /\ BandPixel("right", 3, 1)[1] < OutermostPixel("right", 1)[1]
    /\ BandPixel("right", 3, 1)[1] >= (9 * OutermostPixel("right", 1)[1]) \div 10

\* what edge-stretch returns for the image, border width and settings of the call
EdgeStretchOutcome ==
    _generate_edge_stretched_content(original, BorderPixels, settings, original.id + 1)

\* C19: gradient-fade corners equal edge-stretch corners. When gradient-fade returns
\* for a non-empty image, edge-stretch returns for the same image, B and settings,
\* both use the same source depth S, and the four B x B corner squares of the two
\* results are equal pixel for pixel.
C19_GradientCornersAsEdgeStretch ==
    (GradientReturned /\ NonEmpty) =>
        /\ EdgeStretchOutcome.status = "returned"
        /\ probe.S = StretchSourcePixels(settings, original.w, original.h, BorderPixels)
        /\ \A which \in Corners : \A t \in Dom(BorderPixels, BorderPixels) :
              outcome.img.px[<<SquareRow(which) + t[1], SquareCol(which) + t[2]>>]
                  = EdgeStretchOutcome.img.px[<<SquareRow(which) + t[1], SquareCol(which) + t[2]>>]

\* a gradient-fade result with faded bands, hence not the edge-stretch result, whose
\* corner squares hold 2 x 2 patches of different pixels stretched to 4 x 4
C19_Witness ==
    /\ GradientReturned
    /\ NonEmpty
    /\ BorderPixels = 4
    /\ probe.S = 2
    /\ Cardinality(PatchColors("bl", 2)) = 4
    /\ Cardinality(SquareColors("bl")) = 4
    /\ outcome.img.px # EdgeStretchOutcome.img.px

\* the original's pixel as cv2 holds it: grey verbatim, colour in B, G, R order
AsOpenCvPixel(px) == IF Len(px) = 1 THEN px ELSE <<px[3], px[2], px[1]>>

\* C20: smart-fill mask. Whenever _opencv_smart_fill calls cv2.inpaint for a non-empty
\* image, the mask has shape (H + 2B, W + 2B) and is 255 at (y, x) exactly when
\* (y, x) is outside the center rectangle [B, B+H) x [B, B+W) and 0 inside it, the
\* source canvas has the same shape with the original at offset (B, B), and the
\* radius passed is min(B // 2, 15).
C20_SmartFillMask ==
    (probe.inpaint.called /\ NonEmpty) =>
        LET B == BorderPixels
            H == original.h
            W == original.w
            request == probe.inpaint
        IN  /\ B >= 1
            /\ DOMAIN request.mask = Dom(H + 2 * B, W + 2 * B)
            /\ \A p \in Dom(H + 2 * B, W + 2 * B) :
                  /\ request.mask[p] \in {0, 255}
                  /\ (request.mask[p] = 255) <=> ~InCenter(p, H, W, B)
            /\ request.src.h = H + 2 * B
            /\ request.src.w = W + 2 * B
            /\ \A q \in Dom(H, W) :
                  request.src.px[<<B + q[1], B + q[2]>>] = AsOpenCvPixel(original.px[q])
            /\ request.radius = Min2(B \div 2, 15)
            /\ request.radius = IF B >= 30 THEN 15 ELSE B \div 2

\* a 35-pixel border: the radius is capped at 15 and the backend's fill is returned
C20_Witness ==
    /\ probe.inpaint.called
    /\ NonEmpty
    /\ BorderPixels = 35
    /\ probe.inpaint.radius = 15
    /\ probe.inpaint.mask[<<BorderPixels, BorderPixels>>] = 0
    /\ probe.inpaint.mask[<<BorderPixels, BorderPixels + original.w>>] = 255
    /\ ReturnedImage
    /\ backend.behaviour = "returns"

(***************************************************************************)
(* What a composited page holds: the original center image and the rasters  *)
(* inserted by _replace_image_in_page                                       *)
(***************************************************************************)
OriginalLayers == {page.layers[n] : n \in {m \in DOMAIN page.layers : page.layers[m].xref = OriginalXref}}
InsertedLayers == {page.layers[n] : n \in {m \in DOMAIN page.layers : page.layers[m].xref = InsertedXref}}

\* border_width_mm * 2.834645669, in thousandths of a point
BorderPoints == (page.border_width_mm * 2834646) \div 10000

C22_CornerConsistentWithBands ==
    (EdgeStretchReturned /\ NonEmpty) =>
        LET B == BorderPixels
            H == original.h
            W == original.w
            S == probe.S
            k(i) == Min2((i * S) \div B, S - 1)
            out == outcome.img.px
        IN  /\ out[<<B - 1, B - 1>>] = original.px[<<0, 0>>]
            /\ \A i \in 0 .. B - 1 : \A j \in 0 .. B - 1 :
                  /\ out[<<B - 1 - i, B - 1 - j>>] = original.px[<<k(i), k(j)>>]
                  /\ out[<<B - 1 - i, B + W + j>>] = original.px[<<k(i), W - 1 - k(j)>>]
                  /\ out[<<B + H + i, B - 1 - j>>] = original.px[<<H - 1 - k(i), k(j)>>]
                  /\ out[<<B + H + i, B + W + j>>] = original.px[<<H - 1 - k(i), W - 1 - k(j)>>]

\* the canvas pixels written by step `name` of the strategy
WrittenBy(name) ==
    {p \in Dom(original.h + 2 * BorderPixels, original.w + 2 * BorderPixels) :
        name \in WritesTo(p, original.h, original.w, BorderPixels)}

\* C23: write-once partition. When edge-stretch or gradient-fade returns for a
\* non-empty image, the center copy, the four band fills and the four corner fills
\* write pairwise disjoint pixel sets that together are the whole
\* (H + 2B) x (W + 2B) canvas: every pixel of the result is written by exactly one
\* step, none keeps the canvas's initial zero, and the center still holds the
\* original.
C23_WriteOncePartition ==
    ((EdgeStretchReturned \/ GradientReturned) /\ NonEmpty) =>
        LET B == BorderPixels
            H == original.h
            W == original.w
        IN  /\ B >= 1
            /\ DOMAIN outcome.img.px = Dom(H + 2 * B, W + 2 * B)
            /\ \A p \in DOMAIN outcome.img.px : Cardinality(WritesTo(p, H, W, B)) = 1
            /\ \A q \in Dom(H, W) : outcome.img.px[<<B + q[1], B + q[2]>>] = original.px[q]

\* gradient-fade on the largest image with a 4-pixel border: nine non-empty regions
C23_Witness ==
    /\ GradientReturned
    /\ original.h = MaxDim
    /\ original.w = 2
    /\ BorderPixels = 4
    /\ Cardinality(WrittenBy("left")) = 4 * MaxDim
    /\ Cardinality(WrittenBy("top")) = 8
    /\ Cardinality(WrittenBy("center")) = 2 * MaxDim
    /\ Cardinality(WrittenBy("br")) = 16
    /\ WritesTo(<<3, 3>>, original.h, original.w, BorderPixels) = {"tl"}
    /\ WritesTo(<<3, 4>>, original.h, original.w, BorderPixels) = {"top"}

\* the largest border width for which the index map is tabulated
MaxStrip == 8

\* C24: the index mapping is safe and covers the strip. For all 1 <= S <= B and i in
\* [0, B), i*S // B lies in [0, S-1] and is what the clamped index is, the map is
\* non-decreasing in i and takes every value of [0, S). In a call of edge-stretch on
\* a non-empty image, 1 <= S <= min(H, W, B), every row and column index read by the
\* band loops lies inside the source, each of the four corner slices is the S x S
\* patch at that corner of the source, and the call returns.
C24_IndexMappingSafe ==
    /\ \A B \in 1 .. MaxStrip : \A S \in 1 .. B :
          /\ \A i \in 0 .. B - 1 :
                /\ (i * S) \div B \in 0 .. S - 1
                /\ EdgeIndex(i, S, B) = (i * S) \div B
                /\ (i + 1 < B) => (EdgeIndex(i, S, B) <= EdgeIndex(i + 1, S, B))
          /\ {EdgeIndex(i, S, B) : i \in 0 .. B - 1} = 0 .. S - 1
    /\ (LastCall = "_generate_edge_stretched_content" /\ NonEmpty) =>
          LET B == BorderPixels
              H == original.h
              W == original.w
              S == probe.S
          IN  /\ 1 <= S /\ S <= B /\ S <= H /\ S <= W
              /\ \A i \in 0 .. B - 1 :
                    LET k == EdgeIndex(i, S, B)
                    IN  /\ k = (i * S) \div B
                        /\ 0 <= k /\ k <= H - 1 /\ k <= W - 1
                        /\ 0 <= H - 1 - k /\ 0 <= W - 1 - k
              /\ {EdgeIndex(i, S, B) : i \in 0 .. B - 1} = 0 .. S - 1
              /\ \A which \in Corners :
                    LET region == CornerRegion(NpArray(original), S, which)
                    IN  /\ region.h = S
                        /\ region.w = S
                        /\ \A q \in Dom(S, S) :
                              region.px[q] = original.px[<<PatchRow(which, S) + q[1],
                                                           PatchCol(which, S) + q[2]>>]
              /\ outcome.status = "returned"

\* two source lines spread over four band lines, read from an 8-pixel-wide source
C24_Witness ==
    /\ EdgeStretchReturned
    /\ probe.S = 2
    /\ BorderPixels = 4
    /\ original.w = MaxDim
    /\ {EdgeIndex(i, probe.S, BorderPixels) : i \in 0 .. BorderPixels - 1} = {0, 1}
    /\ CornerRegion(NpArray(original), probe.S, "br").px[<<0, 0>>]
          = original.px[<<original.h - 2, original.w - 2>>]

\* C25: one resolution per call. When edge-stretch or gradient-fade returns for a
\* non-empty image and a positive border width, the source depth S it used is the
\* clamp of the source width converted at the dpi argument of the call, the dpi
\* that B was converted with, whatever settings['output_dpi'] holds.
C25_OneResolutionPerCall ==
    ((EdgeStretchReturned \/ GradientReturned) /\ NonEmpty /\ ValidArgs) =>
        /\ BorderPixels = _mm_to_pixels(args.border_width_mm, args.dpi)
        /\ probe.S = Max2(1, Min2(Min2(_mm_to_pixels(SettingsGet(settings, "stretch_source_width_mm", 10),
                                                     args.dpi),
                                       BorderPixels),
                                  Min2(original.h \div 4, original.w \div 4)))

\* positions of step `name` for page n in the steps process_pdf took
StepPositions(name, n) == {k \in DOMAIN doc.trace : doc.trace[k] = Step(name, n)}
GeneratorSteps == {"generate_border_content", "add_border"}

\* C26: per-page control flow of process_pdf. When process_pdf has ended, the
\* document is closed and, if it raised, nothing was saved; and when nothing the
\* environment did raised, it returned having saved exactly once, after all page
\* steps, with the steps of the pages in page order and, for each page with a center
\* image, in the order find, detect cut marks, extract, Border Content Generator,
\* replace; a page without a center image only has its find step.
C26_PerPageControlFlow ==
    (doc.pc \in {"returned", "raised"}) =>
        /\ doc.closed
        /\ (doc.pc = "raised") => (doc.saved = 0)
        /\ \A k \in DOMAIN doc.trace : \A m \in DOMAIN doc.trace :
              (k < m /\ doc.trace[k].page > 0 /\ doc.trace[m].page > 0)
                  => (doc.trace[k].page <= doc.trace[m].page)
        /\ ~doc.env_failed =>
              /\ doc.pc = "returned"
              /\ doc.saved = 1
              /\ \A k \in StepPositions("save", 0) : \A m \in DOMAIN doc.trace :
                    (doc.trace[m].page > 0) => (m < k)
              /\ \A n \in DOMAIN doc.pages :
                    IF doc.pages[n]
                    THEN \E f \in StepPositions("find", n), c \in StepPositions("detect", n),
                            x \in StepPositions("extract", n), r \in StepPositions("replace", n) :
                            \E g \in DOMAIN doc.trace :
                                /\ doc.trace[g].page = n
                                /\ doc.trace[g].step \in GeneratorSteps
                                /\ f < c /\ c < x /\ x < g /\ g < r
                    ELSE \A k \in DOMAIN doc.trace :
                            (doc.trace[k].page = n) => (doc.trace[k].step = "find")

\* the list positions of the images that are placed and large enough
Qualifying ==
    {k \in DOMAIN finder.images :
        /\ finder.images[k].placed
        /\ 5 * (finder.images[k].rect.x1 - finder.images[k].rect.x0) > Min2(finder.width, finder.height)
        /\ 5 * (finder.images[k].rect.y1 - finder.images[k].rect.y0) > Min2(finder.width, finder.height)}

\* four times the squared distance of image k's center from the page center
CenterDistance(k) ==
    LET r == finder.images[k].rect
    IN  (r.x0 + r.x1 - finder.width) * (r.x0 + r.x1 - finder.width)
        + (r.y0 + r.y1 - finder.height) * (r.y0 + r.y1 - finder.height)

SignalPositions(signal) == {k \in DOMAIN batch.signals : batch.signals[k].signal = signal}

\* the file_completed signals emitted so far, in order of emission
RECURSIVE Completed(_)
Completed(k) ==
    IF k = 0 THEN <<>>
    ELSE IF batch.signals[k].signal = "file_completed"
         THEN Append(Completed(k - 1), batch.signals[k])
         ELSE Completed(k - 1)

\* At every moment the file_completed signals emitted so far are one per handled
\* file, in list order, with success = False exactly for the files whose processing
\* raised; all_completed is emitted at most once, and when run has returned every
\* file of the list has its file_completed signal, failures included, and the last
\* two signals are progress 100 and the one all_completed.
BatchProtocol ==
    LET completed == Completed(Len(batch.signals))
    IN  /\ Len(completed) = batch.i
        /\ batch.i <= Len(batch.files)
        /\ \A k \in DOMAIN completed :
              /\ completed[k].file = k
              /\ completed[k].success = ~batch.files[k]
        /\ Cardinality(SignalPositions("all_completed")) = (IF batch.pc = "returned" THEN 1 ELSE 0)
        /\ (batch.pc = "returned") =>
              /\ Len(completed) = Len(batch.files)
              /\ batch.signals[Len(batch.signals)] = AllCompleted
              /\ batch.signals[Len(batch.signals) - 1] = ProgressUpdated(100)
              /\ \A k \in SignalPositions("file_completed") : k < Len(batch.signals) - 1

\* a batch of three files whose first and third file failed has been run to the end
C28_Witness ==
    /\ batch.pc = "returned"
    /\ Len(batch.files) = 3
    /\ batch.files = <<TRUE, FALSE, TRUE>>
    /\ Completed(Len(batch.signals)) = <<FileCompleted(1, TRUE), FileCompleted(2, FALSE), FileCompleted(3, TRUE)>>

\* C28: batch completion protocol of ProcessingThread.run. For any list of files
\* and any pattern of failures, one file_completed signal is emitted per file, in
\* list order, with success = False exactly for the files that raised, a failure
\* never stops the later files, and run, once scheduled, returns after emitting
\* progress 100 and then exactly one all_completed, after the last file_completed.
C28_BatchCompletionProtocol == []BatchProtocol /\ <>(batch.pc = "returned")

RECURSIVE MostRecentFirst(_)
MostRecentFirst(added) ==
    IF added = <<>> THEN <<>>
    ELSE LET last == added[Len(added)]
             earlier == MostRecentFirst(SubSeq(added, 1, Len(added) - 1))
         IN  <<last>> \o (IF Contains(earlier, last) THEN Remove(earlier, last) ELSE earlier)

\* C30: recent-files list invariant. After any sequence of add_recent_file calls the
\* stored list has no duplicate path, has at most max_recent_files entries, starts
\* with the most recently added path and lists the others most recent first: it is
\* the first max_recent_files distinct paths of the additions read backwards, so
\* re-adding a listed path moves it to the front and keeps the length.
C30_RecentFilesInvariant ==
    config.loaded =>
        LET stored == get_recent_files_setting(config)
        IN  /\ \A j, k \in DOMAIN stored : (stored[j] = stored[k]) => (j = k)
            /\ Len(stored) <= get_max_recent_files(config)
            /\ (config.added # <<>>) => (stored # <<>> /\ stored[1] = config.added[Len(config.added)])
            /\ stored = Prefix(MostRecentFirst(config.added), get_max_recent_files(config))

====================================================================
